---------------------------- MODULE Spec2Model ----------------------------
(***************************************************************************)
(* State-machine model of the terminal-tools (tt) list browsers.           *)
(*                                                                         *)
(* Every browser is a struct (entry list, ListState, query, flags) driven  *)
(* by run_app: render, handle_input, test should_quit.  One step of the    *)
(* model is one iteration of that loop in which event::read() delivered a  *)
(* key event.  Strings are sequences of one-character strings, Option<T>   *)
(* is the empty sequence (None) or a one-element sequence (Some).          *)
(***************************************************************************)
EXTENDS Integers, Sequences, FiniteSets, TLC

(***************************************************************************)
(* Bounds of the model.                                                    *)
(***************************************************************************)
\* longest query the model lets the user type
MaxQuery == 2
\* number of entries of the largest loaded entry list
MaxEntries == 12
\* largest selection index handed to handle_page_navigation directly
MaxSel == 8
\* largest total_items handed to handle_page_navigation directly
MaxTotal == 8
\* largest page_size handed to handle_page_navigation directly
MaxPage == 10
\* longest line of rg output handed to perform_live_search directly
MaxLine == 5
\* lines of the longest file handed to load_file_preview directly
MaxFileLines == 60
\* children of the largest directory handed to load_file_preview directly
MaxChildren == 25

MaxImageSide == 3

MaxTarget == 1000

MaxElapsed == 7000
\* the longest diff `git diff` prints, in lines
MaxDiffLines == 45

(***************************************************************************)
(* Program constants.                                                      *)
(***************************************************************************)
\* page size every browser passes to handle_page_navigation
PAGE_SIZE == 10
\* the --max-count live search passes to rg
MAX_COUNT == 100
\* lines of a file a text preview keeps
PREVIEW_LINES == 50
\* children of a directory a directory preview lists
PREVIEW_CHILDREN == 20

IMAGE_MAX == 50000

RENDER_MAX == 10000

MAX_WIDTH == 200

MAX_HEIGHT == 100

RENDER_WIDTH == 40

RENDER_HEIGHT == 15

GRAY_MAX == 255

LOG_TIMEOUT == 5

STAT_TIMEOUT == 3

DIFF_TIMEOUT == 5

DIFF_LINES == 100

LOG_FIELDS == 5
\* the lines page_down and page_up of the git diff browser move by
DIFF_PAGE == 20
\* the lines the End key of the git diff browser stops before the end
DIFF_END == 20
\* the digits of u32::MAX, the largest line number parse::<u32> accepts
U32_MAX == << "4", "2", "9", "4", "9", "6", "7", "2", "9", "5" >>

(***************************************************************************)
(* Option<usize> and usize arithmetic.                                     *)
(***************************************************************************)
None == << >>
Some(i) == << i >>
IsSome(o) == Len(o) = 1
Unwrap(o) == o[1]

\* a subtraction that does not saturate
wrapping_sub(a, b) == a - b

saturating_sub(a, b) == IF a > b THEN a - b ELSE 0
min(a, b) == IF a < b THEN a ELSE b

(***************************************************************************)
(* Strings.                                                                *)
(***************************************************************************)
\* char::to_lowercase on the characters the model uses
ToLowerChar(c) ==
    CASE c = "A" -> "a"
      [] c = "B" -> "b"
      [] c = "E" -> "e"
      [] c = "F" -> "f"
      [] c = "G" -> "g"
      [] c = "I" -> "i"
      [] c = "J" -> "j"
      [] c = "M" -> "m"
      [] c = "N" -> "n"
      [] c = "P" -> "p"
      [] OTHER   -> c

\* a comparison that keeps the case
keep_case(s) == s

to_lowercase(s) == [i \in 1..Len(s) |-> ToLowerChar(s[i])]

\* str::contains: pat occurs in s as a contiguous substring
contains(s, pat) ==
    \E i \in 1..(Len(s) - Len(pat) + 1) : SubSeq(s, i, i + Len(pat) - 1) = pat

Digit(d) == << "0", "1", "2", "3", "4", "5", "6", "7", "8", "9" >>[d + 1]

RECURSIVE to_string(_)
\* u32::to_string: decimal digits, most significant first
to_string(n) ==
    IF n < 10 THEN << Digit(n) >>
    ELSE Append(to_string(n \div 10), Digit(n % 10))

(***************************************************************************)
(* Key events (crossterm KeyEvent: code and modifiers).                    *)
(***************************************************************************)
Char(c) == [k |-> "Char", c |-> c]
Code(k) == [k |-> k, c |-> ""]
CONTROL == "CONTROL"

KeyEvent(code, modifiers) == [code |-> code, modifiers |-> modifiers]
NoKey == KeyEvent(Code("None"), {})

(***************************************************************************)
(* tui_common::handle_page_navigation                                      *)
(***************************************************************************)
\* paging forward without the clamp to the last item
page_navigation_unclamped(key_code, modifiers, current_selection, total_items, page_size) ==
    IF key_code = Char("f") /\ CONTROL \in modifiers
    THEN IF IsSome(current_selection)
         THEN Some(Unwrap(current_selection) + page_size)
         ELSE IF total_items > 0 THEN Some(0) ELSE None
    ELSE IF key_code = Char("b") /\ CONTROL \in modifiers
    THEN IF IsSome(current_selection)
         THEN Some(saturating_sub(Unwrap(current_selection), page_size))
         ELSE None
    ELSE current_selection

\* paging on 'f' and 'b' whatever the modifiers
page_navigation_any_modifier(key_code, modifiers, current_selection, total_items, page_size) ==
    IF key_code = Char("f")
    THEN IF IsSome(current_selection)
         THEN Some(min(Unwrap(current_selection) + page_size,
                       saturating_sub(total_items, 1)))
         ELSE IF total_items > 0 THEN Some(0) ELSE None
    ELSE IF key_code = Char("b")
    THEN IF IsSome(current_selection)
         THEN Some(saturating_sub(Unwrap(current_selection), page_size))
         ELSE None
    ELSE current_selection

handle_page_navigation(key_code, modifiers, current_selection, total_items, page_size) ==
    IF key_code = Char("f") /\ CONTROL \in modifiers
    THEN IF IsSome(current_selection)
         THEN Some(min(Unwrap(current_selection) + page_size,
                       saturating_sub(total_items, 1)))
         ELSE IF total_items > 0 THEN Some(0) ELSE None
    ELSE IF key_code = Char("b") /\ CONTROL \in modifiers
    THEN IF IsSome(current_selection)
         THEN Some(saturating_sub(Unwrap(current_selection), page_size))
         ELSE None
    ELSE current_selection

(***************************************************************************)
(* Loaded data.  Names are three characters over B < a < b (byte order),   *)
(* most significant first, so Name(0), Name(1), ... is sorted by name.     *)
(***************************************************************************)
Letters == << "B", "a", "b" >>

Name(i) == << Letters[((i \div 9) % 3) + 1],
              Letters[((i \div 3) % 3) + 1],
              Letters[(i % 3) + 1] >>

\* the sizes of the entry lists a loader may produce
EntryCounts == {0, 1, MaxEntries}

\* find: WalkDir yields distinct paths
Files(n) == [i \in 1..n |-> Name(i - 1)]

\* env: (key, value) pairs, sorted by key
EnvVars(n) == [i \in 1..n |-> << Name(i - 1), Name(n - i) >>]

\* man: apropos lines parsed to ManPage and sorted by name
ManPages(n) ==
    [i \in 1..n |-> [name |-> Name(i - 1), section |-> << "1" >>,
                     description |-> Name(n - i)]]

\* the name parse_ps_line takes from a command of one word: what follows
\* its last '/'
process_name(command) ==
    LET slashes == { i \in 1..Len(command) : command[i] = "/" }
        last    == IF slashes = {} THEN 0
                   ELSE CHOOSE i \in slashes : \A j \in slashes : j <= i
    IN  SubSeq(command, last + 1, Len(command))

\* parse_ps_line for a line of eleven columns with the given pid, CPU
\* figure and command
parse_ps_line(pid, cpu, command) ==
    [pid |-> pid, name |-> process_name(command), cpu |-> cpu, command |-> command]

\* kill: the rows `ps aux --no-headers` prints, in ps's own order: init, two
\* kernel threads (the second with a '/' in its name, like kworker/0:1),
\* then n user processes whose CPU figures are not sorted
PsOutput(n) ==
    << parse_ps_line(1, 0, << "/", "i" >>),
       parse_ps_line(2, 3, << "[", "k", "]" >>),
       parse_ps_line(3, 0, << "[", "k", "/", "0", "]" >>) >>
    \o [i \in 1..n |-> parse_ps_line(i + 9, (i * 7) % 5, << "/" >> \o Name(i - 1))]

\* history, recent, git log, git branch: the parsed list, in load order
PlainEntries(n) == [i \in 1..n |-> [name |-> Name(i - 1), is_current |-> i = 1]]

\* search: the line rg prints for match i of a file, `path:line:content`
MatchLine(file, i) == file \o << ":" >> \o to_string(i) \o << ":", "a" >>

(***************************************************************************)
(* The browsers.                                                           *)
(***************************************************************************)
StaticTools == {"find", "kill", "env", "man"}
PlainTools == {"history", "recent", "git_log", "git_branch"}
PreviewTools == {"find", "man", "explore", "history", "recent", "git_log", "search"}
Tools == StaticTools \cup PlainTools \cup {"explore", "search"}

\* the list a browser renders
displayed(self) ==
    IF self.tool \in StaticTools THEN self.filtered
    ELSE IF self.tool = "search" THEN self.results
    ELSE self.entries

\* Vec::get with a usize index
get(list, i) == IF i < Len(list) THEN Some(list[i + 1]) ELSE None

\* the text a preview loader returns for an entry
Preview(e) == << e >>

\* update_preview: reload the preview of the selected entry, if there is one
update_preview(self) ==
    IF self.tool \in PreviewTools /\ IsSome(self.list_state)
       /\ IsSome(get(displayed(self), Unwrap(self.list_state)))
    THEN [self EXCEPT !.preview_content =
              Preview(Unwrap(get(displayed(self), Unwrap(self.list_state))))]
    ELSE self

\* the closure update_filter hands to Iterator::filter; query is lower-cased
matches(tool, e, query) ==
    CASE tool = "find" -> contains(to_lowercase(e), query)
      [] tool = "kill" -> \/ contains(to_lowercase(e.name), query)
                          \/ contains(to_lowercase(e.command), query)
                          \/ contains(to_string(e.pid), query)
      [] tool = "env"  -> \/ contains(to_lowercase(e[1]), query)
                          \/ contains(to_lowercase(e[2]), query)
      [] tool = "man"  -> \/ contains(to_lowercase(e.name), query)
                          \/ contains(to_lowercase(e.description), query)

\* a filter that ranks the entries whose first field starts with the query
\* before the other matches
filter_entries_ranked(self) ==
    LET q       == to_lowercase(self.search_query)
        hit     == SelectSeq(self.entries, LAMBDA e : matches(self.tool, e, q))
        first(e) == IF self.tool = "find" THEN e
                    ELSE IF self.tool = "env" THEN e[1] ELSE e.name
        starts(e) == /\ Len(q) <= Len(first(e))
                     /\ SubSeq(to_lowercase(first(e)), 1, Len(q)) = q
    IN  SelectSeq(hit, starts) \o SelectSeq(hit, LAMBDA e : ~starts(e))

\* the filtered list update_filter computes
filter_entries(self) ==
    IF self.search_query = << >>
    THEN self.entries
    ELSE SelectSeq(self.entries,
                   LAMBDA e : matches(self.tool, e, to_lowercase(self.search_query)))

\* a reset that keeps a selection that is still inside the list
reset_selection_keep(self) ==
    IF displayed(self) # << >>
    THEN IF IsSome(self.list_state) /\ Unwrap(self.list_state) < Len(displayed(self))
         THEN update_preview(self)
         ELSE update_preview([self EXCEPT !.list_state = Some(0)])
    ELSE [self EXCEPT !.list_state = None, !.preview_content = << >>]

\* the "Reset selection" tail of update_filter, load_directory and
\* perform_live_search
reset_selection(self) ==
    IF displayed(self) # << >>
    THEN update_preview([self EXCEPT !.list_state = Some(0)])
    ELSE [self EXCEPT !.list_state = None, !.preview_content = << >>]

\* an update_filter that extends the filtered list instead of replacing it
update_filter_append(self) ==
    reset_selection([self EXCEPT !.filtered = @ \o filter_entries(self)])

\* update_filter of find, kill, env and man
update_filter(self) ==
    reset_selection([self EXCEPT !.filtered = filter_entries(self)])

(***************************************************************************)
(* kill: load_processes                                                    *)
(***************************************************************************)
RECURSIVE sort_by_cpu_desc(_)
\* Vec::sort_by(|a, b| b.cpu.partial_cmp(&a.cpu)): stable, CPU descending
sort_by_cpu_desc(ps) ==
    IF ps = << >> THEN << >>
    ELSE LET n      == Len(ps)
             x      == ps[n]
             sorted == sort_by_cpu_desc(SubSeq(ps, 1, n - 1))
             \* x goes behind every element whose cpu is not below its own
             k      == Cardinality({i \in 1..(n - 1) : sorted[i].cpu >= x.cpu})
         IN  SubSeq(sorted, 1, k) \o << x >> \o SubSeq(sorted, k + 1, n - 1)

\* load_processes when ps ran and succeeded: drop kernel threads and pids
\* 0 and 1, sort by CPU
load_processes(self, ps_rows) ==
    [self EXCEPT
        !.entries = sort_by_cpu_desc(
            SelectSeq(ps_rows, LAMBDA p : p.name[1] # "[" /\ p.pid > 1)),
        !.status_message = << "Found processes" >>]

(***************************************************************************)
(* explore: a directory tree and load_directory.  A path is the sequence   *)
(* of names from the root.                                                 *)
(***************************************************************************)
Root == << >>
HOME == << << "h" >> >>
SubDir == << << "h" >>, << "s" >> >>

\* Path::parent
parent(path) == IF path = Root THEN None ELSE Some(SubSeq(path, 1, Len(path) - 1))

\* fs::read_dir(dir) when it succeeds, in the order the OS returns entries;
\* HOME holds n files
read_dir(dir, n) ==
    CASE dir = Root -> << [name |-> << "h" >>, is_dir |-> TRUE] >>
      [] dir = HOME -> [i \in 1..n |-> [name |-> Name(n - i), is_dir |-> FALSE]]
                       \o << [name |-> << ".", "x" >>, is_dir |-> FALSE],
                             [name |-> << "s" >>, is_dir |-> TRUE] >>
      [] OTHER      -> << >>

\* byte value of a character, for str::cmp
CharCode(c) ==
    CASE c = "." -> 46 [] c = "B" -> 66 [] c = "a" -> 97 [] c = "b" -> 98
      [] c = "h" -> 104 [] c = "s" -> 115 [] OTHER -> 0

RECURSIVE str_less(_, _)
\* a.cmp(b) == Ordering::Less on strings: lexicographic by byte
str_less(a, b) ==
    IF b = << >> THEN FALSE
    ELSE IF a = << >> THEN TRUE
    ELSE IF CharCode(a[1]) # CharCode(b[1]) THEN CharCode(a[1]) < CharCode(b[1])
    ELSE str_less(Tail(a), Tail(b))

\* the comparator of load_directory: directories first, then by lower-cased name
entry_less(a, b) ==
    IF a.is_directory # b.is_directory THEN a.is_directory
    ELSE str_less(to_lowercase(a.name), to_lowercase(b.name))

RECURSIVE sort_entries(_)
\* Vec::sort_by with entry_less: stable
sort_entries(es) ==
    IF es = << >> THEN << >>
    ELSE LET n      == Len(es)
             x      == es[n]
             sorted == sort_entries(SubSeq(es, 1, n - 1))
             k      == Cardinality({i \in 1..(n - 1) : ~entry_less(x, sorted[i])})
         IN  SubSeq(sorted, 1, k) \o << x >> \o SubSeq(sorted, k + 1, n - 1)

FileEntry(dir, e) ==
    [name |-> e.name, path |-> Append(dir, e.name), is_directory |-> e.is_dir,
     is_parent |-> FALSE]

\* load_directory; dir_entries is None when fs::read_dir failed
load_directory(self, dir_entries) ==
    LET dir     == self.current_dir
        up      == IF IsSome(parent(dir))
                   THEN << [name |-> << ".", "." >>, path |-> Unwrap(parent(dir)),
                            is_directory |-> TRUE, is_parent |-> TRUE] >>
                   ELSE << >>
        raw     == IF IsSome(dir_entries) THEN Unwrap(dir_entries) ELSE << >>
        visible == SelectSeq(raw, LAMBDA e : ~(e.name[1] = "." /\ e.name # << ".", "." >>))
        listed  == [i \in 1..Len(visible) |-> FileEntry(dir, visible[i])]
        loaded  == reset_selection([self EXCEPT !.entries = up \o sort_entries(listed)])
    IN  [loaded EXCEPT !.status_message = << "Directory" >>]

(***************************************************************************)
(* search: LiveSearchBrowser::perform_live_search                          *)
(***************************************************************************)
\* bytes of the UTF-8 encoding of a character
ByteLen(c) == IF c = "U+00E9" THEN 2 ELSE 1

RECURSIVE str_len(_)
\* String::len: the length in bytes
str_len(s) == IF s = << >> THEN 0 ELSE ByteLen(s[1]) + str_len(Tail(s))

\* perform_live_search returns before it builds a command
below_threshold(self) == str_len(self.search_query) < 2

\* str::find for a character: the position of its first occurrence, 0 if none
find_char(s, c) ==
    IF \E i \in 1..Len(s) : s[i] = c
    THEN CHOOSE i \in 1..Len(s) : s[i] = c /\ \A j \in 1..(i - 1) : s[j] # c
    ELSE 0

\* a split that cuts at the last ':' first
RECURSIVE rsplitn(_, _)
rsplitn(n, s) ==
    LET i == IF \E k \in 1..Len(s) : s[k] = ":"
             THEN CHOOSE k \in 1..Len(s) : s[k] = ":" /\ \A j \in (k + 1)..Len(s) : s[j] # ":"
             ELSE 0
    IN  IF n <= 1 \/ i = 0 THEN << s >>
        ELSE rsplitn(n - 1, SubSeq(s, 1, i - 1)) \o << SubSeq(s, i + 1, Len(s)) >>

RECURSIVE splitn(_, _)
\* str::splitn(n, ':'): at most n pieces, the last one the whole remainder
splitn(n, s) ==
    LET i == find_char(s, ":")
    IN  IF n <= 1 \/ i = 0 THEN << s >>
        ELSE << SubSeq(s, 1, i - 1) >> \o splitn(n - 1, SubSeq(s, i + 1, Len(s)))

DigitChars == {"0", "1", "2", "3", "4", "5", "6", "7", "8", "9"}

\* the value of a decimal digit
DigitValue(c) == CHOOSE d \in 0..9 : Digit(d) = c

RECURSIVE decimal(_)
\* the number a non-empty string of digits writes
decimal(s) ==
    IF Len(s) = 1 THEN DigitValue(s[1])
    ELSE 10 * decimal(SubSeq(s, 1, Len(s) - 1)) + DigitValue(s[Len(s)])

RECURSIVE strip_zeros(_)
\* a string of digits without its leading zeros
strip_zeros(s) == IF s # << >> /\ s[1] = "0" THEN strip_zeros(Tail(s)) ELSE s

RECURSIVE exceeds(_, _)
\* of two strings of digits of one length, the first writes the larger number
exceeds(a, b) ==
    /\ a # << >>
    /\ \/ DigitValue(a[1]) > DigitValue(b[1])
       \/ a[1] = b[1] /\ exceeds(Tail(a), Tail(b))

\* the checked arithmetic of parse::<u32>: the number does not fit 32 bits
overflows_u32(digits) ==
    LET d == strip_zeros(digits)
    IN  Len(d) > Len(U32_MAX) \/ (Len(d) = Len(U32_MAX) /\ exceeds(d, U32_MAX))

\* str::parse::<u32>: digits after an optional '+', no larger than u32::MAX
parse_u32(s) ==
    LET digits == IF s # << >> /\ s[1] = "+" THEN Tail(s) ELSE s
    IN  IF digits = << >> \/ \E i \in 1..Len(digits) : digits[i] \notin DigitChars
        THEN None
        ELSE IF overflows_u32(digits) THEN None ELSE Some(decimal(digits))

\* LiveSearchBrowser::parse_ripgrep_line (matched_text, which nothing reads,
\* is left out of the result)
parse_ripgrep_line(line) ==
    LET parts == splitn(3, line)
    IN  IF Len(parts) >= 3 /\ IsSome(parse_u32(parts[2]))
        THEN Some([file_path |-> parts[1], line_number |-> Unwrap(parse_u32(parts[2])),
                   line_content |-> parts[3]])
        ELSE None

\* the loop over search_output.lines() that pushes every parsed line, in the
\* order of the output
parse_lines(lines) ==
    LET parsed == [i \in 1..Len(lines) |-> parse_ripgrep_line(lines[i])]
        kept == SelectSeq(parsed, IsSome)
    IN  [i \in 1..Len(kept) |-> Unwrap(kept[i])]

\* what rg prints for a file with n matching lines under --max-count
FileMatches(file, n) == [i \in 1..min(n, MAX_COUNT) |-> MatchLine(file, i)]

\* lines of other shapes that reach the parser
OddLines ==
    << << "a", ":", "7", ":", "a", ":", "a" >>,
       << "B", ":", "a" >>,
       << "a", ":", "a", ":", "1" >>,
       << "a", ":", "+", "2", ":", "a" >>,
       << "a" >> >>

\* the standard outputs of rg a session reads
Stdouts == { << >>, FileMatches(<< "a" >>, 1), OddLines }

\* what Command::output() can give for rg: the spawn fails, or rg exits 0
\* with matches, 1 without a match, 2 after an error it reports on stderr
RgOutputs(query) ==
    { [spawned |-> FALSE, status |-> 2, stdout |-> << >>, stderr |-> << >>] }
    \cup { [spawned |-> TRUE, status |-> 1, stdout |-> << >>, stderr |-> << >>] }
    \cup { [spawned |-> TRUE, status |-> 2, stdout |-> out,
            stderr |-> << "regex parse error" >>] :
             out \in { << >>, FileMatches(<< "a" >>, 1) } }
    \cup { [spawned |-> TRUE, status |-> 0, stdout |-> out, stderr |-> << >>] :
             out \in Stdouts \ { << >> } }

\* the status line of a finished search
Found(n, query) ==
    << "Found " >> \o to_string(n) \o << " matches for '" >> \o query \o << "'" >>

\* perform_live_search up to the call of Command::output()
start_search(self) ==
    [self EXCEPT !.is_searching = TRUE,
                 !.status_message = << "Searching for '" >> \o self.search_query
                                        \o << "'..." >>]

\* perform_live_search after Command::output() returned Ok(out)
finish_search(self, out) ==
    LET found == [self EXCEPT
                     !.results = IF out.status = 0 THEN parse_lines(out.stdout)
                                 ELSE << >>]
    IN  [reset_selection(found) EXCEPT
            !.status_message = Found(Len(found.results), self.search_query),
            !.is_searching = FALSE]

\* perform_live_search; out is what Command::output() gave, read only when
\* the query reaches the threshold
perform_live_search(self, out) ==
    IF below_threshold(self)
    THEN [self EXCEPT !.results = << >>,
                      !.status_message = << "Type at least 2 characters to search..." >>]
    ELSE IF ~out.spawned
    THEN start_search(self)
    ELSE finish_search(start_search(self), out)

\* the outputs perform_live_search can read: rg runs only at the threshold
RgRuns(self) ==
    IF below_threshold(self)
    THEN { CHOOSE o \in RgOutputs(self.search_query) : ~o.spawned }
    ELSE RgOutputs(self.search_query)

\* the io::Result of perform_live_search
live_search_failed(self, out) == ~below_threshold(self) /\ ~out.spawned

(***************************************************************************)
(* State.                                                                  *)
(*   self        the browser struct                                        *)
(*   run_result  "loop" while run_app loops, then the io::Result it        *)
(*               returned ("Ok" after should_quit, "Err" after a `?`)      *)
(*   key         the key event the last handle_input read                  *)
(*   before      what that handle_input found: the selection, the length   *)
(*               of the displayed list, the query and kill's mode          *)
(*   call        one direct call of handle_page_navigation: its arguments  *)
(*               and, once it returned, its result                         *)
(*   procs       the rg, ps and kill processes spawned since the last      *)
(*               handle_input began, each with the query it was given and  *)
(*               its outcome ("running" until Command::output() returns)   *)
(***************************************************************************)
VARIABLES self, run_result, key, before, call, procs

vars == << self, run_result, key, before, call, procs >>

\* a child process
Proc(cmd, query, outcome, stderr) ==
    [cmd |-> cmd, query |-> query, outcome |-> outcome, stderr |-> stderr]

\* the processes of ps that have not exited
Running(ps) == SelectSeq(ps, LAMBDA p : p.outcome = "running")

\* a loop that reads keys while a child runs
NeverBusy == TRUE

\* the thread is not inside Command::output(), which waits for the child
Idle == Running(procs) = << >>

\* the struct literal every `new` starts from
NewSelf(tool) ==
    [tool |-> tool, entries |-> << >>, filtered |-> << >>, results |-> << >>,
     list_state |-> None, search_query |-> << >>, preview_content |-> << >>,
     status_message |-> << "Loading" >>, should_quit |-> FALSE,
     confirmation_mode |-> FALSE, selected_process |-> None,
     current_dir |-> Root, is_searching |-> FALSE]

NoCall == [pending |-> FALSE]

\* what `before` keeps of a struct
Snapshot(s) ==
    [list_state |-> s.list_state, len |-> Len(displayed(s)),
     search_query |-> s.search_query, confirmation_mode |-> s.confirmation_mode]

\* the optional initial query given on the command line
InitialQueries == { << >>, << "a" >> }

\* LiveSearchBrowser::new when it returns Ok: a search at once if there is
\* an initial pattern
new_search(q, out) ==
    LET browser == [NewSelf("search") EXCEPT
                       !.search_query = q,
                       !.status_message = << "Type to search with ripgrep..." >>]
    IN  IF q # << >> THEN perform_live_search(browser, out) ELSE browser

\* the value `new` returns, for every tool
NewBrowsers ==
    { update_filter([NewSelf("find") EXCEPT !.entries = Files(n), !.search_query = q]) :
        n \in EntryCounts, q \in InitialQueries }
    \cup
    { update_filter(load_processes([NewSelf("kill") EXCEPT !.search_query = q],
                                   PsOutput(n))) :
        n \in EntryCounts, q \in InitialQueries }
    \cup
    { update_filter([NewSelf("env") EXCEPT !.entries = EnvVars(n)]) : n \in EntryCounts }
    \cup
    { update_filter([NewSelf("man") EXCEPT !.entries = ManPages(n), !.search_query = q]) :
        n \in EntryCounts, q \in InitialQueries }
    \cup
    UNION { { load_directory([NewSelf("explore") EXCEPT !.current_dir = d], r) :
                r \in {None} \cup { Some(read_dir(d, n)) : n \in EntryCounts } } :
            d \in {Root, HOME} }
    \cup
    { reset_selection([NewSelf(t) EXCEPT !.entries = PlainEntries(n)]) :
        t \in PlainTools, n \in EntryCounts }
    \cup
    UNION { { new_search(q, out) :
                out \in { o \in RgRuns([search_query |-> q]) :
                             o.spawned \/ below_threshold([search_query |-> q]) } } :
            q \in InitialQueries \cup { << "a", "B" >> } }

Init ==
    /\ self \in NewBrowsers
    /\ run_result = "loop"
    /\ key = NoKey
    /\ before = Snapshot(self)
    /\ call = NoCall
    /\ procs = << >>

(***************************************************************************)
(* Key events the model delivers.                                          *)
(***************************************************************************)
\* characters typed without a modifier
PlainChars(tool) ==
    {"f", "q"}
    \cup (IF tool = "find" THEN {"j"} ELSE {})
    \cup (IF tool \in PlainTools \cup {"explore"} THEN {"j", "k"} ELSE {})
    \cup (IF tool \in StaticTools \cup {"search"} THEN {"a", "B", "1"} ELSE {})
    \cup (IF tool = "search" THEN {"U+00E9"} ELSE {})
    \cup (IF tool \in {"kill", "explore"} THEN {"r"} ELSE {})
    \cup (IF tool = "explore" THEN {"h"} ELSE {})
    \cup (IF tool = "kill" THEN {"y", "n"} ELSE {})

\* keys other than characters
CodeKeys(tool) ==
    {"Esc", "Up", "Down", "Enter", "Backspace", "Tab"}
    \cup (IF tool = "explore" THEN {"Left", "Right", "Home"} ELSE {})

Keys(tool) ==
    { KeyEvent(Char(c), {}) : c \in PlainChars(tool) }
    \cup { KeyEvent(Char(c), {CONTROL}) : c \in {"b", "c", "f"} }
    \cup { KeyEvent(Code(k), {}) : k \in CodeKeys(tool) }

\* the tools whose handle_input has a KeyCode::Enter arm
EnterTools == Tools \ {"env", "git_log"}

\* the arm of handle_input's (kill: handle_normal_input's) match that takes
\* key k, the arms tried in source order
Arm(tool, k) ==
    IF k.code = Char("q") \/ k.code = Code("Esc") THEN "quit"
    ELSE IF k.code = Char("c") /\ CONTROL \in k.modifiers THEN "quit"
    ELSE IF k.code = Char("f") /\ CONTROL \in k.modifiers THEN "page_forward"
    ELSE IF k.code = Char("b") /\ CONTROL \in k.modifiers THEN "page_backward"
    ELSE IF tool = "kill" /\ k.code = Char("r") THEN "refresh"
    ELSE IF k.code = Code("Up") THEN "up"
    ELSE IF k.code = Code("Down") THEN "down"
    ELSE IF k.code = Code("Enter") /\ tool \in EnterTools THEN "enter"
    ELSE IF tool = "explore" /\ k.code = Code("Right") THEN "enter"
    ELSE IF tool = "explore" /\ k.code = Code("Left") THEN "left"
    ELSE IF tool = "explore" /\ k.code = Char("h") THEN "help"
    ELSE IF tool = "explore" /\ k.code = Char("r") THEN "refresh"
    ELSE IF tool = "explore" /\ k.code = Code("Home") THEN "home"
    ELSE IF tool \in StaticTools \cup {"search"} /\ k.code.k = "Char" THEN "char"
    ELSE IF tool \in StaticTools \cup {"search"} /\ k.code = Code("Backspace")
    THEN "backspace"
    ELSE "other"

\* a handle_confirmation_input where 'q' cancels as well
ConfirmArmQ(k) ==
    IF k.code \in {Char("y"), Char("Y"), Code("Enter")} THEN "confirm"
    ELSE IF k.code \in {Char("n"), Char("N"), Code("Esc"), Char("q")} THEN "cancel"
    ELSE "other"

\* the arm of kill's handle_confirmation_input that takes key k
ConfirmArm(k) ==
    IF k.code \in {Char("y"), Char("Y"), Code("Enter")} THEN "confirm"
    ELSE IF k.code \in {Char("n"), Char("N"), Code("Esc")} THEN "cancel"
    ELSE "other"

\* handle_input dispatches to handle_normal_input (every tool but kill has
\* only this mode)
NormalMode == run_result = "loop" /\ Idle /\ ~self.confirmation_mode

\* one iteration of run_app that read key k, spawned the processes
\* `spawned` and left the struct as s; failed when handle_input returned Err
HandledProcs(k, s, failed, spawned) ==
    /\ key' = k
    /\ before' = Snapshot(self)
    /\ self' = s
    /\ run_result' = IF failed THEN "Err" ELSE IF s.should_quit THEN "Ok" ELSE "loop"
    /\ procs' = Running(procs) \o spawned
    /\ UNCHANGED call

\* an iteration that spawned none of the processes procs follows
Handled(k, s, failed) == HandledProcs(k, s, failed, << >>)

\* the keys of the current tool that handle_input sends to arm a
KeysOf(a) == { k \in Keys(self.tool) : Arm(self.tool, k) = a }

(***************************************************************************)
(* Selection movement.                                                     *)
(***************************************************************************)
\* ListState::select followed by update_preview
select(s, sel) == update_preview([s EXCEPT !.list_state = sel])

\* the KeyCode::Up arm
select_prev(s) ==
    IF IsSome(s.list_state) /\ Unwrap(s.list_state) > 0
    THEN select(s, Some(Unwrap(s.list_state) - 1))
    ELSE s

\* a Down that wraps from the last entry to the first
select_next_wrap(s) ==
    IF IsSome(s.list_state)
    THEN IF Unwrap(s.list_state) + 1 < Len(displayed(s))
         THEN select(s, Some(Unwrap(s.list_state) + 1))
         ELSE select(s, Some(0))
    ELSE IF displayed(s) # << >> THEN select(s, Some(0)) ELSE s

\* the KeyCode::Down arm
select_next(s) ==
    IF IsSome(s.list_state)
    THEN IF Unwrap(s.list_state) + 1 < Len(displayed(s))
         THEN select(s, Some(Unwrap(s.list_state) + 1))
         ELSE s
    ELSE IF displayed(s) # << >> THEN select(s, Some(0)) ELSE s

\* the Ctrl-F and Ctrl-B arms
page(s, k) ==
    LET new_selection ==
            handle_page_navigation(k.code, k.modifiers, s.list_state,
                                   Len(displayed(s)), PAGE_SIZE)
    IN  IF IsSome(new_selection) THEN select(s, new_selection) ELSE s

\* a pop that removes the first character
pop_first(q) == IF q = << >> THEN q ELSE Tail(q)

\* String::pop
pop(q) == IF q = << >> THEN q ELSE SubSeq(q, 1, Len(q) - 1)

(***************************************************************************)
(* handle_input, one action per match arm.                                 *)
(***************************************************************************)
Quit ==
    /\ NormalMode
    /\ \E k \in KeysOf("quit") :
         Handled(k, [self EXCEPT !.should_quit = TRUE], FALSE)

PageForward ==
    /\ NormalMode
    /\ \E k \in KeysOf("page_forward") : Handled(k, page(self, k), FALSE)

PageBackward ==
    /\ NormalMode
    /\ \E k \in KeysOf("page_backward") : Handled(k, page(self, k), FALSE)

Up ==
    /\ NormalMode
    /\ \E k \in KeysOf("up") : Handled(k, select_prev(self), FALSE)

Down ==
    /\ NormalMode
    /\ \E k \in KeysOf("down") : Handled(k, select_next(self), FALSE)

\* a Char(c) arm placed before the quit arm: 'q' is typed like any character
TypeCharBeforeQuit ==
    /\ NormalMode
    /\ self.tool \in StaticTools
    /\ Len(self.search_query) < MaxQuery
    /\ \E k \in KeysOf("char") \cup { KeyEvent(Char("q"), {}) } :
         Handled(k, update_filter([self EXCEPT !.search_query = Append(@, k.code.c)]),
                 FALSE)

\* KeyCode::Char(c) of find, kill, env, man: push and update_filter
TypeChar ==
    /\ NormalMode
    /\ self.tool \in StaticTools
    /\ Len(self.search_query) < MaxQuery
    /\ \E k \in KeysOf("char") :
         Handled(k, update_filter([self EXCEPT !.search_query = Append(@, k.code.c)]),
                 FALSE)

\* KeyCode::Backspace of find, kill, env, man: pop and update_filter
Backspace ==
    /\ NormalMode
    /\ self.tool \in StaticTools
    /\ \E k \in KeysOf("backspace") :
         Handled(k, update_filter([self EXCEPT !.search_query = pop(@)]), FALSE)

\* the outcome procs records for what Command::output() gave
outcome_of(out) ==
    IF ~out.spawned THEN "spawn_failed"
    ELSE IF out.status = 0 THEN "success" ELSE "failure"

\* handle_input of search after the query was edited to s.search_query:
\* perform_live_search returns at once below the threshold, and otherwise
\* spawns rg and waits in Command::output()
edited(k, s) ==
    IF below_threshold(s)
    THEN \E out \in RgRuns(s) : Handled(k, perform_live_search(s, out), FALSE)
    ELSE HandledProcs(k, start_search(s), FALSE,
                      << Proc("rg", s.search_query, "running", << >>) >>)

\* KeyCode::Char(c) of search: push and perform_live_search
LiveTypeChar ==
    /\ NormalMode
    /\ self.tool = "search"
    /\ Len(self.search_query) < MaxQuery
    /\ \E k \in KeysOf("char") :
         edited(k, [self EXCEPT !.search_query = Append(@, k.code.c)])

\* KeyCode::Backspace of search
LiveBackspace ==
    /\ NormalMode
    /\ self.tool = "search"
    /\ \E k \in KeysOf("backspace") :
         LET popped == [self EXCEPT !.search_query = pop(@)]
         IN  IF popped.search_query = << >>
             THEN Handled(k, [popped EXCEPT !.results = << >>,
                                            !.list_state = None,
                                            !.preview_content = << >>,
                                            !.status_message =
                                               << "Type to search with ripgrep..." >>],
                          FALSE)
             ELSE edited(k, popped)

\* Command::output() returns to perform_live_search: on Err the `?` ends
\* handle_input and run_app, on Ok the results are replaced
LiveSearchReturn ==
    /\ run_result = "loop"
    /\ \E i \in 1..Len(procs) :
         /\ procs[i].outcome = "running"
         /\ \E out \in RgOutputs(procs[i].query) :
              /\ self' = IF out.spawned THEN finish_search(self, out) ELSE self
              /\ run_result' = IF live_search_failed(self, out) THEN "Err" ELSE "loop"
              /\ procs' = [procs EXCEPT ![i] = Proc("rg", @.query, outcome_of(out),
                                                    out.stderr)]
    /\ UNCHANGED << key, before, call >>

\* any key no arm takes
OtherKey ==
    /\ NormalMode
    /\ \E k \in KeysOf("other") : Handled(k, self, FALSE)

(***************************************************************************)
(* External results the handlers read.                                     *)
(***************************************************************************)
\* fs::read_dir(d): an error, or the entries the directory holds now
ReadDirs(d) == {None} \cup { Some(read_dir(d, n)) : n \in EntryCounts }

\* `ps aux`: None when it cannot be spawned or exits with a failure
PsRuns == {None} \cup { Some(PsOutput(n)) : n \in EntryCounts }

\* a spawned command: it cannot be spawned, exits 0, or exits non-zero
CommandResults == {"spawn_error", "success", "failure"}

\* the first entry of the list, whatever the selection
first_entry(s) == get(displayed(s), 0)

\* the selected entry, as `list_state.selected()` and `.get(selected)` give it
selected_entry(s) ==
    IF IsSome(s.list_state) THEN get(displayed(s), Unwrap(s.list_state)) ELSE None

(***************************************************************************)
(* The Enter arms.  Each outcome is the struct left behind and whether     *)
(* handle_input returned Err.                                              *)
(***************************************************************************)
Outcome(s, failed) == [s |-> s, failed |-> failed]

\* explore: load_directory after current_dir was set to d
enter_directory(s, d) ==
    { Outcome(load_directory([s EXCEPT !.current_dir = d], r), FALSE) : r \in ReadDirs(d) }

\* git branch: switch_branch on branch b
switch_branch(s, b) ==
    IF b.is_current
    THEN { Outcome([s EXCEPT !.status_message = << "Already on this branch" >>], FALSE) }
    ELSE { Outcome(s, TRUE),
           Outcome([s EXCEPT !.status_message = << "Switched to branch" >>,
                             !.should_quit = TRUE], FALSE),
           Outcome([s EXCEPT !.status_message = << "Failed to switch" >>], FALSE) }

enter(s) ==
    LET e == selected_entry(s)
    IN  IF ~IsSome(e) THEN { Outcome(s, FALSE) }
        ELSE CASE s.tool \in {"find", "history", "recent", "search"} ->
                    { Outcome([s EXCEPT !.should_quit = TRUE], FALSE) }
               [] s.tool = "man" ->
                    { Outcome([s EXCEPT !.should_quit = TRUE], FALSE),
                      Outcome([s EXCEPT !.status_message = << "Failed to open man page" >>],
                              FALSE) }
               [] s.tool = "kill" ->
                    { Outcome([s EXCEPT !.selected_process = e,
                                        !.confirmation_mode = TRUE,
                                        !.status_message = << "Kill process?" >>], FALSE) }
               [] s.tool = "git_branch" -> switch_branch(s, Unwrap(e))
               [] s.tool = "explore" ->
                    IF Unwrap(e).is_directory
                    THEN enter_directory(s, Unwrap(e).path)
                    ELSE { Outcome([s EXCEPT !.should_quit = TRUE], FALSE) }

Enter ==
    /\ NormalMode
    /\ self.tool \in EnterTools
    /\ \E k \in KeysOf("enter"), o \in enter(self) : Handled(k, o.s, o.failed)

(***************************************************************************)
(* kill: refresh, confirmation mode, kill_process.                         *)
(***************************************************************************)
\* load_processes()? then update_filter: ps is None when load_processes
\* returned Err, after it cleared the process list
reload(s, ps) ==
    IF IsSome(ps)
    THEN Outcome(update_filter(load_processes(s, Unwrap(ps))), FALSE)
    ELSE Outcome([s EXCEPT !.entries = << >>], TRUE)

\* the 'r' arm of kill
refresh_processes(s, ps) ==
    LET o == reload(s, ps)
    IN  IF o.failed THEN o
        ELSE Outcome([o.s EXCEPT !.status_message = << "Processes refreshed" >>], FALSE)

\* a kill_process that leaves the process list alone after a kill
kill_process_no_reload(s, r, ps) ==
    CASE r = "spawn_error" ->
           Outcome([s EXCEPT !.status_message = << "Error killing process" >>], FALSE)
      [] r = "failure" ->
           Outcome([s EXCEPT !.status_message = << "Failed to kill process" >>], FALSE)
      [] r = "success" ->
           Outcome([s EXCEPT !.status_message = << "Process killed successfully" >>], FALSE)

\* kill_process: `kill <pid>` gave r; ps is read only after a successful kill
kill_process(s, r, ps) ==
    CASE r = "spawn_error" ->
           Outcome([s EXCEPT !.status_message = << "Error killing process" >>], FALSE)
      [] r = "failure" ->
           Outcome([s EXCEPT !.status_message = << "Failed to kill process" >>], FALSE)
      [] r = "success" ->
           reload([s EXCEPT !.status_message = << "Process killed successfully" >>], ps)

\* the y / Y / Enter arm of handle_confirmation_input
confirm(s, r, ps) ==
    LET o == IF IsSome(s.selected_process) THEN kill_process(s, r, ps)
             ELSE Outcome(s, FALSE)
    IN  IF o.failed THEN o
        ELSE Outcome([o.s EXCEPT !.confirmation_mode = FALSE,
                                 !.selected_process = None], FALSE)

ConfirmationMode == run_result = "loop" /\ Idle /\ self.confirmation_mode

\* the keys delivered to handle_confirmation_input: those of normal mode and
\* the upper-case answers
ConfirmKeys == Keys("kill") \cup { KeyEvent(Char(c), {}) : c \in {"Y", "N"} }

\* the child `kill <pid>` and how Command::output() ended for it
kill_proc(pid, r) ==
    Proc("kill", to_string(pid), IF r = "spawn_error" THEN "spawn_failed" ELSE r, << >>)

\* the ps process of load_processes that gave ps
ps_proc(ps, why) ==
    Proc("ps", << >>, IF IsSome(ps) THEN "success" ELSE why, << >>)
       @@ [rows |-> IF IsSome(ps) THEN Unwrap(ps) ELSE << >>]

\* why load_processes returned Err: ps was not spawned, or exited non-zero
PsFailures == {"spawn_failed", "failure"}

ConfirmKill ==
    /\ ConfirmationMode
    /\ \E k \in { x \in ConfirmKeys : ConfirmArm(x) = "confirm" },
          r \in CommandResults, why \in PsFailures :
         \E ps \in IF r = "success" THEN PsRuns ELSE {None} :
           /\ (IsSome(ps) \/ r # "success") => why = "failure"
           /\ LET o == confirm(self, r, ps)
              IN  HandledProcs(k, o.s, o.failed,
                      IF IsSome(self.selected_process)
                      THEN << kill_proc(Unwrap(self.selected_process).pid, r) >>
                           \o (IF r = "success" THEN << ps_proc(ps, why) >> ELSE << >>)
                      ELSE << >>)

CancelKill ==
    /\ ConfirmationMode
    /\ \E k \in { x \in ConfirmKeys : ConfirmArm(x) = "cancel" } :
         Handled(k, [self EXCEPT !.confirmation_mode = FALSE,
                                 !.selected_process = None,
                                 !.status_message = << "Kill cancelled" >>], FALSE)

ConfirmOtherKey ==
    /\ ConfirmationMode
    /\ \E k \in { x \in ConfirmKeys : ConfirmArm(x) = "other" } :
         Handled(k, self, FALSE)

(***************************************************************************)
(* The 'r' arms of kill and explore, and explore's other arms.             *)
(***************************************************************************)
Refresh ==
    /\ NormalMode
    /\ \E k \in KeysOf("refresh") :
         IF self.tool = "kill"
         THEN \E ps \in PsRuns, why \in PsFailures :
                /\ IsSome(ps) => why = "failure"
                /\ LET o == refresh_processes(self, ps)
                   IN  HandledProcs(k, o.s, o.failed, << ps_proc(ps, why) >>)
         ELSE \E r \in ReadDirs(self.current_dir) :
                Handled(k, [load_directory(self, r) EXCEPT
                               !.status_message = << "Directory refreshed" >>], FALSE)

ExploreLeft ==
    /\ NormalMode
    /\ \E k \in KeysOf("left") :
         IF IsSome(parent(self.current_dir))
         THEN \E o \in enter_directory(self, Unwrap(parent(self.current_dir))) :
                Handled(k, o.s, o.failed)
         ELSE Handled(k, self, FALSE)

ExploreHome ==
    /\ NormalMode
    /\ \E k \in KeysOf("home"), o \in enter_directory(self, HOME) :
         Handled(k, o.s, o.failed)

ExploreHelp ==
    /\ NormalMode
    /\ \E k \in KeysOf("help") :
         Handled(k, [self EXCEPT !.status_message =
                                    << "Hidden files toggle not implemented yet" >>], FALSE)

(***************************************************************************)
(* The browsers' specification.                                            *)
(***************************************************************************)
Next ==
    \/ Quit
    \/ PageForward
    \/ PageBackward
    \/ Up
    \/ Down
    \/ Enter
    \/ TypeChar
    \/ Backspace
    \/ LiveTypeChar
    \/ LiveBackspace
    \/ LiveSearchReturn
    \/ Refresh
    \/ ExploreLeft
    \/ ExploreHome
    \/ ExploreHelp
    \/ ConfirmKill
    \/ CancelKill
    \/ ConfirmOtherKey
    \/ OtherKey

Spec == Init /\ [][Next]_vars

(***************************************************************************)
(* handle_page_navigation called directly, on arguments no browser need    *)
(* reach.                                                                  *)
(***************************************************************************)
PageKeys ==
    { KeyEvent(Char(c), m) : c \in {"f", "b", "j"}, m \in {{}, {CONTROL}, {"SHIFT"}} }
    \cup { KeyEvent(Code("Enter"), {}), KeyEvent(Code("Down"), {CONTROL}) }

Selections == {None} \cup { Some(i) : i \in 0..MaxSel }

PageInit ==
    /\ self = NewSelf("tui_common")
    /\ run_result = "Ok"
    /\ key \in PageKeys
    /\ before = Snapshot(self)
    /\ call \in [pending : {TRUE}, current_selection : Selections,
                 total_items : 0..MaxTotal, page_size : 0..MaxPage, result : {None}]
    /\ procs = << >>

PageCall ==
    /\ call.pending
    /\ call' = [call EXCEPT
                   !.pending = FALSE,
                   !.result = handle_page_navigation(key.code, key.modifiers,
                                  call.current_selection, call.total_items,
                                  call.page_size)]
    /\ UNCHANGED << self, run_result, key, before, procs >>

PageNext == PageCall

PageSpec == PageInit /\ [][PageNext]_vars

(***************************************************************************)
(* image_preview::generate_ascii_preview.  An image is its width, its      *)
(* height and the gray value (line 186) of its pixels, which are all of    *)
(* one colour; a String is the sequence of its characters.                 *)
(***************************************************************************)
max(a, b) == IF a > b THEN a ELSE b

\* the characters from dark to light
RAMP == << " ", ".", ":", "-", "=", "+", "*", "#", "%", "@" >>

\* an index scaled by the length of the ramp instead of its last index
ramp_index_by_len(gray) ==
    min(IF gray = GRAY_MAX THEN Len(RAMP) - 1 ELSE (gray * Len(RAMP)) \div GRAY_MAX,
        Len(RAMP) - 1)

\* char_index of a gray value, with its clamp
ramp_index(gray) ==
    min(IF gray = GRAY_MAX THEN Len(RAMP) - 1 ELSE (gray * (Len(RAMP) - 1)) \div GRAY_MAX,
        Len(RAMP) - 1)

\* char_vec[char_index]; Vec indices start at 0
ramp_char(gray) == RAMP[ramp_index(gray) + 1]

\* target_width.min(200).max(1)
safe_width(target_width) == max(min(target_width, MAX_WIDTH), 1)

\* target_height.min(100).max(1)
safe_height(target_height) == max(min(target_height, MAX_HEIGHT), 1)

\* a / b rounded to the nearest integer, halves upwards
round_div(a, b) == (2 * a + b) \div (2 * b)

\* DynamicImage::resize: the aspect ratio is kept and the image is scaled,
\* up or down, to the largest size that fits in nwidth x nheight, no side
\* below 1
resize(img, nwidth, nheight) ==
    IF nwidth * img.height <= nheight * img.width
    THEN [img EXCEPT !.width  = max(nwidth, 1),
                     !.height = max(round_div(img.height * nwidth, img.width), 1)]
    ELSE [img EXCEPT !.width  = max(round_div(img.width * nheight, img.height), 1),
                     !.height = nheight]

\* the loops over y and x: one character per pixel, a newline per row
ascii_rows(rgb_img) ==
    [k \in 1..(rgb_img.height * (rgb_img.width + 1)) |->
        IF k % (rgb_img.width + 1) = 0 THEN "\n" ELSE ramp_char(rgb_img.gray)]

\* generate_ascii_preview: always Ok(ascii_art)
generate_ascii_preview(img, target_width, target_height) ==
    LET resized == resize(img, safe_width(target_width), safe_height(target_height))
    IN  [ok |-> TRUE, width |-> resized.width, height |-> resized.height,
         ascii_art |-> ascii_rows(resized)]

(***************************************************************************)
(* load_file_preview of explore, find and recent.  A file is what the      *)
(* file system answers for its path: is_directory, the extension, what     *)
(* read_dir, read_to_string and metadata return.  A preview is the String  *)
(* returned, as its lines, with the branch that built it.                  *)
(***************************************************************************)
\* the extensions the matches! of is_image_file lists
IMAGE_EXTENSIONS ==
    { << "j", "p", "g" >>, << "j", "p", "e", "g" >>, << "p", "n", "g" >>,
      << "g", "i", "f" >>, << "b", "m", "p" >> }

\* an is_image_file that compares the extension as it is written
is_image_file_exact(file) ==
    /\ IsSome(file.extension)
    /\ Unwrap(file.extension) \in IMAGE_EXTENSIONS

\* image_preview::is_image_file
is_image_file(file) ==
    /\ IsSome(file.extension)
    /\ to_lowercase(Unwrap(file.extension)) \in IMAGE_EXTENSIONS

\* Path::file_name of a path given as its components: the last component
\* unless it is "." or "..", nothing for the empty path
path_file_name(path) ==
    IF path = << >> \/ path[Len(path)] \in { << "." >>, << ".", "." >> }
    THEN None
    ELSE Some(path[Len(path)])

\* Path::extension: what follows the last '.' of the file name, nothing
\* when the name has no '.' or only the one it starts with
extension(path) ==
    IF ~IsSome(path_file_name(path)) THEN None
    ELSE LET name == Unwrap(path_file_name(path))
             dots == { i \in 1..Len(name) : name[i] = "." }
             last == CHOOSE i \in dots : \A j \in dots : j <= i
         IN  IF dots = {} \/ last = 1 THEN None
             ELSE Some(SubSeq(name, last + 1, Len(name)))

\* an Iterator::take that takes everything
take_all(seq, n) == seq

\* Iterator::take(n)
take(seq, n) == SubSeq(seq, 1, min(n, Len(seq)))

PreviewOf(branch, text) == [branch |-> branch, text |-> text]

\* path.file_name() and path.display(): the extension is the end of both
file_name(file) ==
    << "f" >> \o (IF IsSome(file.extension) THEN << "." >> \o Unwrap(file.extension)
                  ELSE << >>)

display(file) == << "/", "d", "/" >> \o file_name(file)

\* what a closure run under catch_unwind did: it returned or it panicked
Completed(value) == [panicked |-> FALSE, value |-> value]

Panicked == [panicked |-> TRUE, value |-> << >>]

\* the first line of a preview that shows an image, and of one that failed
ImageHeader(file) == << "U+1F5BC", " Image: " >> \o file_name(file)

ErrorHeader(file) == << "U+1F5BC", " Image file: " >> \o file_name(file)

\* the unwrap_or_else of the catch_unwind: the fixed diagnostic
panic_preview(file) ==
    PreviewOf("image",
              << ErrorHeader(file), << "U+274C", " Panic occurred during image processing" >> >>)

\* a closure run without catch_unwind: the panic leaves the function
no_catch_unwind(file, outcome) ==
    IF outcome.panicked THEN PreviewOf("unwound", << >>) ELSE outcome.value

\* std::panic::catch_unwind(..).unwrap_or_else(..)
catch_unwind(file, outcome) ==
    IF outcome.panicked THEN panic_preview(file) ELSE outcome.value

\* the rows of the art as lines
art_lines(art) ==
    [y \in 1..art.height |->
        SubSeq(art.ascii_art, (y - 1) * (art.width + 1) + 1, y * (art.width + 1) - 1)]

\* terminal_preview.trim().is_empty(): nothing but spaces and newlines
trim_is_empty(ascii_art) == \A k \in 1..Len(ascii_art) : ascii_art[k] \in {" ", "\n"}

\* render_image_to_terminal: opens the file again, tests the dimensions,
\* then draws at 40 x 15; Err for every failure, a panic leaves it
render_image_to_terminal(file) ==
    LET img == file.image
    IN  IF img.reopen = "panic" THEN Panicked
        ELSE IF img.reopen = "error" THEN Completed([ok |-> FALSE])
        ELSE IF img.width = 0 \/ img.height = 0 THEN Completed([ok |-> FALSE])
        ELSE IF img.width > RENDER_MAX \/ img.height > RENDER_MAX
        THEN Completed([ok |-> FALSE])
        ELSE Completed(generate_ascii_preview(
                          [width |-> img.width, height |-> img.height, gray |-> img.gray],
                          RENDER_WIDTH, RENDER_HEIGHT))

\* the closure of generate_image_preview
image_preview_closure(file) ==
    LET img == file.image
    IN  IF img.open = "panic" THEN Panicked
        ELSE IF img.open = "error"
        THEN Completed(PreviewOf("image",
                 << ErrorHeader(file), << "U+274C", " Error loading image: ", "e" >> >>))
        ELSE IF img.width > IMAGE_MAX \/ img.height > IMAGE_MAX
        THEN Completed(PreviewOf("image",
                 << ImageHeader(file),
                    << "U+274C", " Image too large for preview (" >> \o to_string(img.width)
                        \o << "x" >> \o to_string(img.height) \o << ")" >> >>))
        ELSE LET info == << ImageHeader(file),
                            << "U+1F4D0", " Dimensions: " >> \o to_string(img.width)
                                \o << "x" >> \o to_string(img.height),
                            << "U+1F3A8", " Channels: ", "3" >> >>
                 rendered == render_image_to_terminal(file)
             IN  IF rendered.panicked THEN Panicked
                 ELSE IF rendered.value.ok
                 THEN IF trim_is_empty(rendered.value.ascii_art)
                      THEN Completed(PreviewOf("image", info))
                      ELSE Completed(PreviewOf("image",
                               info \o << << >>, << "U+1F4FA", " Terminal Preview:" >> >>
                                    \o art_lines(rendered.value)))
                 ELSE Completed(PreviewOf("image",
                          info \o << << >>,
                                     << "U+1F4FA", " ASCII preview unavailable for this image" >> >>))

\* image_preview::generate_image_preview: always a String
generate_image_preview(file) == catch_unwind(file, image_preview_closure(file))

\* the icon literals of the listing, as the source file holds them: the
\* second is the first followed by one more character
DIR_ICON == << "U+00F0", "U+0178", "U+201C" >>

FILE_ICON == DIR_ICON \o << "U+201E" >>

\* Iterator::flatten on the ReadDir iterator: the entries that are Ok
flatten(dir_entries) == SelectSeq(dir_entries, IsSome)

\* a listing line without the icon
format_entry_untagged(entry) == << " " >> \o Unwrap(entry).name

\* format!("{} {}", icon, name) of one entry of the directory
format_entry(entry) ==
    (IF Unwrap(entry).is_dir THEN DIR_ICON ELSE FILE_ICON)
        \o << " " >> \o Unwrap(entry).name

\* the is_directory branch of explore's load_file_preview
directory_preview(file) ==
    IF IsSome(file.read_dir)
    THEN LET taken == take(flatten(Unwrap(file.read_dir)), PREVIEW_CHILDREN)
             contents == [i \in 1..Len(taken) |-> format_entry(taken[i])]
         IN  IF contents = << >>
             THEN PreviewOf("directory", << << "[Empty directory]" >> >>)
             ELSE PreviewOf("directory", contents)
    ELSE PreviewOf("directory", << << "[Permission denied]" >> >>)

\* the match on fs::read_to_string, the same in explore, find and recent
text_preview(file) ==
    IF IsSome(file.content)
    THEN PreviewOf("text", take(Unwrap(file.content), PREVIEW_LINES))
    ELSE IF IsSome(file.metadata)
    THEN PreviewOf("binary_info",
                   << << "File: " >> \o display(file),
                      << "Size" >> \o to_string(Unwrap(file.metadata).len),
                      << "Modified" >> \o Unwrap(file.metadata).modified,
                      << >>,
                      << "[Binary file or read error]" >> >>)
    ELSE PreviewOf("unreadable", << << "[Could not read file]" >> >>)

\* load_file_preview of the tool
load_file_preview(tool, file) ==
    IF tool = "explore" /\ file.is_directory THEN directory_preview(file)
    ELSE IF tool \in {"explore", "find"} /\ is_image_file(file)
    THEN generate_image_preview(file)
    ELSE text_preview(file)

(***************************************************************************)
(* load_file_preview called directly, on the files a file system can hold. *)
(***************************************************************************)
\* the lines of a file of n lines
FileLines(n) == [i \in 1..n |-> to_string(i)]

\* what read_dir yields for a directory of n children: the third entry
\* cannot be read, every second one is a directory with children of its
\* own, and the first is named like a message of the preview
Children(n) ==
    [i \in 1..n |->
        IF i = 3 THEN None
        ELSE Some([name     |-> IF i = 1 THEN << "[Empty directory]" >>
                                ELSE << "child" >> \o to_string(i),
                   is_dir   |-> i % 2 = 0,
                   read_dir |-> IF i % 2 = 0 THEN << << "grandchild" >> >>
                                ELSE << >>])]

Extensions ==
    { None, Some(<< "r", "s" >>), Some(<< "b", "m", "p" >>), Some(<< "B", "m", "p" >>) }

LineCounts ==
    { 0, 1, PREVIEW_LINES - 1, PREVIEW_LINES, PREVIEW_LINES + 1, MaxFileLines }

Metadatas ==
    { None, Some([len |-> 7, modified |-> None]),
      Some([len |-> 7, modified |-> Some("SystemTime")]) }

\* what image::open finds in the file: an error, a panic of the decoder, or
\* an image; and what the second open of render_image_to_terminal finds
NoImage == [open |-> "error", width |-> 0, height |-> 0, gray |-> 0, reopen |-> "error"]

ImageSizes ==
    { << 0, 1 >>, << 1, 0 >>, << 1, 1 >>, << 3, 2 >>,
      << RENDER_MAX, RENDER_MAX >>, << RENDER_MAX + 1, 1 >>, << 1, RENDER_MAX + 1 >>,
      << IMAGE_MAX, IMAGE_MAX >>, << IMAGE_MAX + 1, 1 >>, << 1, IMAGE_MAX + 1 >> }

ImageFiles ==
    { NoImage, [NoImage EXCEPT !.open = "panic"] } \cup
    { [open |-> "ok", width |-> wh[1], height |-> wh[2], gray |-> g, reopen |-> r] :
        wh \in ImageSizes, g \in {0, 128}, r \in {"ok", "error", "panic"} }

\* find lists regular files only; a directory has no text to read; a path
\* that does not exist answers every call with an error; only a file can
\* hold an image
PreviewFiles(tool) ==
    { f \in [exists       : BOOLEAN,
             is_directory : BOOLEAN,
             extension    : Extensions,
             read_dir     : {None, Some(<< None >>)} \cup
                            { Some(Children(n)) :
                                n \in {0, 1, 2, PREVIEW_CHILDREN, MaxChildren} },
             content      : {None} \cup { Some(FileLines(n)) : n \in LineCounts },
             metadata     : Metadatas,
             image        : ImageFiles] :
        /\ tool = "find" => ~f.is_directory
        /\ f.is_directory => f.content = None
        /\ ~f.is_directory => f.read_dir = None
        /\ ~f.exists => /\ f.read_dir = None
                        /\ f.content = None
                        /\ f.metadata = None
                        /\ f.image = NoImage
        /\ f.image # NoImage => /\ ~f.is_directory
                                /\ is_image_file(f)
                                /\ f.metadata # None
                                /\ f.content \in {None, Some(FileLines(1))} }

PreviewInit ==
    /\ self = NewSelf("preview")
    /\ run_result = "loop"
    /\ key = NoKey
    /\ before = Snapshot(self)
    /\ \E tool \in {"explore", "find", "recent"} :
         call \in [pending : {TRUE}, tool : {tool}, file : PreviewFiles(tool),
                   result : {PreviewOf("none", << >>)}]
    /\ procs = << >>

PreviewCall ==
    /\ call.pending
    /\ call' = [call EXCEPT !.pending = FALSE,
                            !.result = load_file_preview(call.tool, call.file)]
    /\ UNCHANGED << self, run_result, key, before, procs >>

PreviewNext == PreviewCall

PreviewSpec == PreviewInit /\ [][PreviewNext]_vars

(***************************************************************************)
(* is_image_file called directly on paths.                                 *)
(***************************************************************************)
\* the upper-case letter of a letter of the image extensions
ToUpperChar(c) ==
    IF \E u \in {"B", "E", "F", "G", "I", "J", "M", "N", "P"} : ToLowerChar(u) = c
    THEN CHOOSE u \in {"B", "E", "F", "G", "I", "J", "M", "N", "P"} : ToLowerChar(u) = c
    ELSE c

\* a word in every mix of upper and lower case
CaseVariants(w) ==
    { [i \in 1..Len(w) |-> IF i \in up THEN ToUpperChar(w[i]) ELSE w[i]] :
        up \in SUBSET (1..Len(w)) }

\* what a file name ends with: nothing, a bare '.', or '.' and an extension
Suffixes ==
    { << >>, << "." >> }
    \cup { << "." >> \o e :
             e \in UNION { CaseVariants(w) : w \in IMAGE_EXTENSIONS }
                   \cup { << "t", "x", "t" >>, << "r", "s" >>, << "p", "d", "f" >>,
                          << "j", "p" >>, << "j", "p", "g", "x" >>,
                          << "x", "p", "n", "g" >>, << "w", "e", "b", "p" >> } }

\* what precedes the suffix in the file name
Stems == { << >>, << "t", "e", "s", "t" >>, << "t", ".", "p", "n", "g" >>, << "." >> }

\* the directory part
Parents == { << >>, << << "d", ".", "p", "n", "g" >> >> }

Paths ==
    { dir \o (IF name = << >> THEN << >> ELSE << name >>) :
        dir \in Parents, name \in { stem \o suffix : stem \in Stems, suffix \in Suffixes } }

ImageNameInit ==
    /\ self = NewSelf("is_image_file")
    /\ run_result = "loop"
    /\ key = NoKey
    /\ before = Snapshot(self)
    /\ call \in [pending : {TRUE}, path : Paths, result : {FALSE}]
    /\ procs = << >>

ImageNameCall ==
    /\ call.pending
    /\ call' = [call EXCEPT !.pending = FALSE,
                            !.result = is_image_file([extension |-> extension(call.path)])]
    /\ UNCHANGED << self, run_result, key, before, procs >>

ImageNameNext == ImageNameCall

ImageNameSpec == ImageNameInit /\ [][ImageNameNext]_vars

(***************************************************************************)
(* The pixel step of generate_ascii_preview called directly on every gray  *)
(* value of a u8.                                                          *)
(***************************************************************************)
RampInit ==
    /\ self = NewSelf("ramp")
    /\ run_result = "loop"
    /\ key = NoKey
    /\ before = Snapshot(self)
    /\ call \in [pending : {TRUE}, gray : 0..GRAY_MAX, char_index : {0}, char : {""}]
    /\ procs = << >>

RampCall ==
    /\ call.pending
    /\ call' = [call EXCEPT !.pending = FALSE,
                            !.char_index = ramp_index(call.gray),
                            !.char = ramp_char(call.gray)]
    /\ UNCHANGED << self, run_result, key, before, procs >>

RampNext == RampCall

RampSpec == RampInit /\ [][RampNext]_vars

(***************************************************************************)
(* generate_ascii_preview called directly, on small images and on target   *)
(* sizes below, at and above its clamps.                                   *)
(***************************************************************************)
Images ==
    [width : 1..MaxImageSide, height : 1..MaxImageSide, gray : {0, 128, GRAY_MAX}]

TargetWidths == {0, 1, 10, RENDER_WIDTH, MAX_WIDTH, MAX_WIDTH + 1, MaxTarget}

TargetHeights == {0, 1, 5, RENDER_HEIGHT, MAX_HEIGHT, MAX_HEIGHT + 1, MaxTarget}

NoArt == [ok |-> FALSE, width |-> 0, height |-> 0, ascii_art |-> << >>]

AsciiInit ==
    /\ self = NewSelf("ascii")
    /\ run_result = "loop"
    /\ key = NoKey
    /\ before = Snapshot(self)
    /\ call \in [pending : {TRUE}, img : Images, target_width : TargetWidths,
                 target_height : TargetHeights, result : {NoArt}]
    /\ procs = << >>

AsciiCall ==
    /\ call.pending
    /\ call' = [call EXCEPT !.pending = FALSE,
                            !.result = generate_ascii_preview(call.img, call.target_width,
                                                              call.target_height)]
    /\ UNCHANGED << self, run_result, key, before, procs >>

AsciiNext == AsciiCall

AsciiSpec == AsciiInit /\ [][AsciiNext]_vars

(***************************************************************************)
(* git: run_git_command_with_timeout, and load_commits and                 *)
(* load_commit_diff of the log browser.  A run of git is whether it could  *)
(* be spawned, the time Command::output() took in milliseconds, the exit   *)
(* status and the bytes of stdout and stderr, as lines.                    *)
(***************************************************************************)
\* Duration::as_secs: whole seconds, the fraction dropped
as_secs(elapsed_ms) == elapsed_ms \div 1000

\* String::from_utf8_lossy: a byte that is not UTF-8 becomes U+FFFD
from_utf8_lossy(bytes) ==
    [k \in 1..Len(bytes) |->
        [c \in 1..Len(bytes[k]) |->
            IF bytes[k][c] = "0xFF" THEN "U+FFFD" ELSE bytes[k][c]]]

\* the io::Result<String> of the bridge
GitOk(value) == [ok |-> TRUE, kind |-> "Ok", value |-> value]

GitErr(kind, value) == [ok |-> FALSE, kind |-> kind, value |-> value]

\* a bridge that does not look at the exit status
run_git_ignoring_status(out, timeout_secs) ==
    IF ~out.spawned THEN GitErr("NotFound", << >>)
    ELSE IF as_secs(out.elapsed) > timeout_secs
    THEN GitErr("TimedOut", << << "Git command timed out" >> >>)
    ELSE GitOk(from_utf8_lossy(out.stdout))

\* run_git_command_with_timeout
run_git_command_with_timeout(out, timeout_secs) ==
    IF ~out.spawned THEN GitErr("NotFound", << >>)
    ELSE IF as_secs(out.elapsed) > timeout_secs
    THEN GitErr("TimedOut", << << "Git command timed out" >> >>)
    ELSE IF out.status = 0 THEN GitOk(from_utf8_lossy(out.stdout))
    ELSE GitErr("Other",
                << << "Git command failed: " >> >> \o from_utf8_lossy(out.stderr))

RECURSIVE split(_, _)
\* str::split on a character
split(line, c) ==
    LET i == find_char(line, c)
    IN  IF i = 0 THEN << line >>
        ELSE << SubSeq(line, 1, i - 1) >> \o split(SubSeq(line, i + 1, Len(line)), c)

\* the loop of load_commits over one line of the log
parse_commit(line) ==
    LET parts == split(line, "|")
    IN  IF Len(parts) >= LOG_FIELDS
        THEN Some([hash |-> parts[1], short_hash |-> parts[2], message |-> parts[3],
                   author |-> parts[4], date |-> parts[5]])
        ELSE None

RECURSIVE parse_commits(_)
parse_commits(lines) ==
    IF lines = << >> THEN << >>
    ELSE parse_commit(Head(lines)) \o parse_commits(Tail(lines))

\* GitLogBrowser::load_commit_diff
load_commit_diff(hash, stat, diff) ==
    LET shown  == run_git_command_with_timeout(stat, STAT_TIMEOUT)
        head   == IF shown.ok THEN shown.value ELSE << << "Commit: " >> \o hash >>
        patch  == run_git_command_with_timeout(diff, DIFF_TIMEOUT)
    IN  head \o << << "--- Diff Preview (limited) ---" >> >> \o
        (IF patch.ok
         THEN take(patch.value, DIFF_LINES) \o
              (IF Len(patch.value) > DIFF_LINES
               THEN << << >>,
                       << "... (showing first 100 of " >> \o to_string(Len(patch.value))
                           \o << " lines total)" >>,
                       << "Use 'git show " >> \o hash \o << "' for full diff" >> >>
               ELSE << >>)
         ELSE << << "Failed to load commit diff (timeout or error)" >> >>)

\* GitLogBrowser::new: the struct literal, then load_commits with its
\* update_preview; Ok(browser) in every case
load_commits(log, stat, diff) ==
    LET browser == [commits |-> << >>, list_state |-> None, should_quit |-> FALSE,
                    status_message |-> << "Loading git log..." >>,
                    preview_content |-> << >>]
        log_output == run_git_command_with_timeout(log, LOG_TIMEOUT)
    IN  IF ~log_output.ok
        THEN [browser EXCEPT !.status_message =
                 << "Error: Not a git repository, git not found, or command timed out" >>]
        ELSE LET commits == parse_commits(log_output.value)
             IN  [browser EXCEPT
                    !.commits = commits,
                    !.list_state = IF commits # << >> THEN Some(0) ELSE None,
                    !.preview_content =
                        IF commits # << >> THEN load_commit_diff(commits[1].hash, stat, diff)
                        ELSE << >>,
                    !.status_message =
                        << "Loaded " >> \o to_string(Len(commits)) \o << " commits" >>]

(***************************************************************************)
(* The bridge and the two loaders of the log browser called directly, on   *)
(* runs of git that end before, at and after each timeout.                 *)
(***************************************************************************)
Timeouts == {STAT_TIMEOUT, LOG_TIMEOUT}

ElapsedTimes ==
    {0, MaxElapsed} \cup
    UNION { { 1000 * t, 1000 * t + 1, 1000 * t + 999, 1000 * (t + 1) } : t \in Timeouts }

LogLine(i) == << "h" >> \o to_string(i) \o << "|", "s", "|", "m", "|", "a", "|", "d" >>

GitStdouts ==
    { << >>, << LogLine(1), << "h", "|", "s", "|", "m", "|", "a" >>, LogLine(3) >>,
      << << "0xFF", "x" >> >> }

GitStderrs == { << >>, << << "fatal: not a git repository", "0xFF" >> >> }

NoRun == [spawned |-> FALSE, elapsed |-> 0, status |-> 0, stdout |-> << >>, stderr |-> << >>]

GitOutputs ==
    { NoRun } \cup
    [spawned : {TRUE}, elapsed : ElapsedTimes, status : {0, 1, 128},
     stdout : GitStdouts, stderr : GitStderrs]

\* the runs of the two commands of load_commit_diff
ShowOutputs ==
    { NoRun } \cup
    [spawned : {TRUE}, elapsed : {0, 1000 * STAT_TIMEOUT + 999, 1000 * (DIFF_TIMEOUT + 1)},
     status : {0, 128},
     stdout : { << << "diff" >> >>, [i \in 1..(DIFF_LINES + 1) |-> to_string(i)] },
     stderr : { << << "fatal: bad object" >> >> }]

GitCalls ==
    [pending : {TRUE}, fn : {"run_git_command_with_timeout"}, timeout_secs : Timeouts,
     log : GitOutputs, stat : {NoRun}, diff : {NoRun}, result : {GitErr("none", << >>)}]
    \cup
    [pending : {TRUE}, fn : {"load_commits"}, timeout_secs : {LOG_TIMEOUT},
     log : { o \in GitOutputs : o.elapsed \in {0, 1000 * LOG_TIMEOUT + 999, MaxElapsed}
                                /\ o.status # 1 },
     stat : ShowOutputs, diff : ShowOutputs, result : {GitErr("none", << >>)}]

GitInit ==
    /\ self = NewSelf("git_log")
    /\ run_result = "loop"
    /\ key = NoKey
    /\ before = Snapshot(self)
    /\ call \in GitCalls
    /\ procs = << >>

\* one call of the bridge
GitRun ==
    /\ call.pending
    /\ call.fn = "run_git_command_with_timeout"
    /\ call' = [call EXCEPT !.pending = FALSE,
                            !.result = run_git_command_with_timeout(call.log,
                                                                    call.timeout_secs)]
    /\ UNCHANGED << self, run_result, key, before, procs >>

\* GitLogBrowser::new
GitLoad ==
    /\ call.pending
    /\ call.fn = "load_commits"
    /\ call' = [call EXCEPT !.pending = FALSE,
                            !.result = load_commits(call.log, call.stat, call.diff)]
    /\ UNCHANGED << self, run_result, key, before, procs >>

GitNext == GitRun \/ GitLoad

GitSpec == GitInit /\ [][GitNext]_vars

(***************************************************************************)
(* perform_live_search called directly, on outputs of rg no session of the *)
(* model reads: every line up to MaxLine characters, and a tree with more  *)
(* than MAX_COUNT matching lines in two files.                             *)
(***************************************************************************)
LineChars == {"a", ":", "1", "+"}

\* every line of at most MaxLine characters
Lines == UNION { [1..n -> LineChars] : n \in 0..MaxLine }

CallStdouts ==
    { << l >> : l \in Lines }
    \cup { << l, MatchLine(<< "a" >>, 1) >> : l \in Lines }
    \cup { OddLines,
           << << "a", ":", "0", "1", ":", "a" >>, << "a", ":", "-", "1", ":", "a" >> >>,
           FileMatches(<< "a" >>, MAX_COUNT + 1) \o FileMatches(<< "B" >>, 1) }

LiveSearchInit ==
    /\ self = [NewSelf("search") EXCEPT !.search_query = << "a", "a" >>]
    /\ run_result = "loop"
    /\ key = NoKey
    /\ before = Snapshot(self)
    /\ call \in [pending : {TRUE},
                 out : [spawned : {TRUE}, status : {0, 2}, stdout : CallStdouts,
                        stderr : {<< >>}]]
    /\ procs = << >>

LiveSearchCall ==
    /\ call.pending
    /\ call' = [call EXCEPT !.pending = FALSE]
    /\ self' = perform_live_search(self, call.out)
    /\ run_result' = IF live_search_failed(self, call.out) THEN "Err" ELSE "loop"
    /\ procs' = << Proc("rg", self.search_query, outcome_of(call.out), call.out.stderr) >>
    /\ UNCHANGED << key, before >>

LiveSearchNext == LiveSearchCall

LiveSearchSpec == LiveSearchInit /\ [][LiveSearchNext]_vars

(***************************************************************************)
(* The git diff browser.  Here self is the GitDiffBrowser struct, with     *)
(* diff_content as its lines.                                              *)
(***************************************************************************)
\* the lines of a diff of n lines
DiffLines(n) == [i \in 1..n |-> << "+" >> \o to_string(i)]

\* what Command::output() gives load_diff once git was spawned: a
\* non-zero exit, or the diff on stdout, which may be blank
DiffOutputs ==
    { [status |-> 1, stdout |-> << >>] }
    \cup { [status |-> 0, stdout |-> out] :
             out \in { << >>, << << " " >> >> }
                     \cup { DiffLines(n) :
                              n \in {1, 2, DIFF_END, DIFF_PAGE + 1, MaxDiffLines} } }

\* GitDiffBrowser::new followed by load_diff
new_diff(out) ==
    LET browser == [tool |-> "git_diff", diff_content |-> << >>, scroll_offset |-> 0,
                    should_quit |-> FALSE, status_message |-> << "Loading git diff..." >>]
        blank   == \A i \in 1..Len(out.stdout) :
                      \A j \in 1..Len(out.stdout[i]) : out.stdout[i][j] = " "
    IN  IF out.status # 0
        THEN [browser EXCEPT !.status_message =
                 << "Error: Not a git repository or git not found" >>]
        ELSE IF blank
        THEN [browser EXCEPT !.diff_content = << << "No changes to show" >> >>,
                             !.status_message = << "Working tree clean" >>]
        ELSE [browser EXCEPT !.diff_content = out.stdout,
                             !.status_message = << "Git diff (" >>
                                 \o to_string(Len(out.stdout)) \o << " lines)" >>]

\* diff_content.lines().count().saturating_sub(1)
max_scroll(s) == saturating_sub(Len(s.diff_content), 1)

\* a page_down without the clamp
page_down_unclamped(s) == [s EXCEPT !.scroll_offset = @ + DIFF_PAGE]

\* GitDiffBrowser::page_down
page_down(s) == [s EXCEPT !.scroll_offset = min(@ + DIFF_PAGE, max_scroll(s))]

\* GitDiffBrowser::page_up
page_up(s) == [s EXCEPT !.scroll_offset = saturating_sub(@, DIFF_PAGE)]

\* the Up | Char('k') arm
scroll_up(s) == IF s.scroll_offset > 0 THEN [s EXCEPT !.scroll_offset = @ - 1] ELSE s

\* the Down | Char('j') arm
scroll_down(s) ==
    IF s.scroll_offset < max_scroll(s) THEN [s EXCEPT !.scroll_offset = @ + 1] ELSE s

\* the End | Char('G') arm
scroll_end(s) ==
    [s EXCEPT !.scroll_offset = saturating_sub(Len(s.diff_content), DIFF_END)]

\* the keys delivered to the diff browser
DiffKeys ==
    { KeyEvent(Char(c), {}) : c \in {"q", "k", "j", "g", "G", "f", "b"} }
    \cup { KeyEvent(Char(c), {CONTROL}) : c \in {"b", "c", "f"} }
    \cup { KeyEvent(Code(k), {}) : k \in {"Esc", "Up", "Down", "Home", "End", "Tab"} }

\* the arm of GitDiffBrowser::handle_input that takes key k
DiffArm(k) ==
    IF k.code = Char("q") \/ k.code = Code("Esc") THEN "quit"
    ELSE IF k.code = Char("c") /\ CONTROL \in k.modifiers THEN "quit"
    ELSE IF k.code = Char("f") /\ CONTROL \in k.modifiers THEN "page_down"
    ELSE IF k.code = Char("b") /\ CONTROL \in k.modifiers THEN "page_up"
    ELSE IF k.code \in {Code("Up"), Char("k")} THEN "up"
    ELSE IF k.code \in {Code("Down"), Char("j")} THEN "down"
    ELSE IF k.code \in {Code("Home"), Char("g")} THEN "home"
    ELSE IF k.code \in {Code("End"), Char("G")} THEN "end"
    ELSE "other"

\* one iteration of the diff browser's run_app that read key k and left
\* the struct as s
DiffHandled(a, s) ==
    /\ run_result = "loop"
    /\ \E k \in { x \in DiffKeys : DiffArm(x) = a } : key' = k
    /\ self' = s
    /\ run_result' = IF s.should_quit THEN "Ok" ELSE "loop"
    /\ UNCHANGED << before, call, procs >>

DiffInit ==
    /\ self \in { new_diff(out) : out \in DiffOutputs }
    /\ run_result = "loop"
    /\ key = NoKey
    /\ before = Snapshot(NewSelf("git_diff"))
    /\ call = NoCall
    /\ procs = << >>

DiffQuit == DiffHandled("quit", [self EXCEPT !.should_quit = TRUE])

DiffPageDown == DiffHandled("page_down", page_down(self))

DiffPageUp == DiffHandled("page_up", page_up(self))

DiffUp == DiffHandled("up", scroll_up(self))

DiffDown == DiffHandled("down", scroll_down(self))

DiffHome == DiffHandled("home", [self EXCEPT !.scroll_offset = 0])

DiffEnd == DiffHandled("end", scroll_end(self))

DiffOtherKey == DiffHandled("other", self)

DiffNext ==
    \/ DiffQuit
    \/ DiffPageDown
    \/ DiffPageUp
    \/ DiffUp
    \/ DiffDown
    \/ DiffHome
    \/ DiffEnd
    \/ DiffOtherKey

DiffSpec == DiffInit /\ [][DiffNext]_vars

(***************************************************************************)
(* Properties of the selection (spec section 4.1).                         *)
(***************************************************************************)
\* the list_state of the struct is absent exactly when the displayed list is
\* empty, and otherwise indexes an entry of it
SelectionValid ==
    /\ IsSome(self.list_state) => Unwrap(self.list_state) < Len(displayed(self))
    /\ self.list_state = None <=> displayed(self) = << >>

\* the last key went through the normal-mode match of handle_input and was
\* taken by arm a
TookArm(a) == ~before.confirmation_mode /\ Arm(self.tool, key) = a

\* C1: in every browser but live search (find, kill, env, man, explore,
\* history, recent, git log, git branch) a selection Some(i) satisfies
\* i < len(displayed list), and the selection is None exactly when the
\* displayed list is empty.
C1_SelectionInBounds == self.tool # "search" => SelectionValid

\* a page forward in find that was clamped to the last of the entries
C1_Witness ==
    /\ self.tool = "find"
    /\ TookArm("page_forward")
    /\ IsSome(before.list_state)
    /\ Unwrap(before.list_state) + PAGE_SIZE > Len(self.filtered) - 1
    /\ Len(self.filtered) > 1
    /\ self.list_state = Some(Len(self.filtered) - 1)

\* C2: in live search the selection is never stale when the loop renders:
\* while run_app loops and no search is in flight, the selection is None
\* exactly when the results are empty and otherwise indexes a result, also
\* after the query was edited down to fewer than two characters.
C2_LiveSelectionNeverStale ==
    (self.tool = "search" /\ run_result = "loop" /\ Idle) => SelectionValid

\* C3: every recomputation of a static filter (update_filter of find, kill,
\* env, man: at construction and after each edit of the query) leaves the
\* selection Some(0) when the filtered list is non-empty and None when it
\* is empty, whatever the selection was before.
C3_FilterResetsSelection ==
    (/\ self.tool \in StaticTools
     /\ key = NoKey \/ TookArm("char") \/ TookArm("backspace"))
    => self.list_state = IF self.filtered # << >> THEN Some(0) ELSE None

\* a typed character that moved the selection from a later entry back to
\* the first entry of a non-empty filtered list
C3_Witness ==
    /\ self.tool \in StaticTools
    /\ TookArm("char")
    /\ IsSome(before.list_state)
    /\ Unwrap(before.list_state) > 0
    /\ self.filtered # << >>
    /\ Len(self.filtered) > Unwrap(before.list_state)
    /\ self.list_state = Some(0)

\* C4: with the selection Some(i) on a list of length n, Down gives
\* Some(i+1) only when i+1 < n and otherwise changes nothing, Up gives
\* Some(i-1) only when i > 0 and otherwise changes nothing: no wrap-around.
C4_SingleStepNoWrap ==
    /\ (TookArm("down") /\ IsSome(before.list_state)) =>
          self.list_state =
             IF Unwrap(before.list_state) + 1 < before.len
             THEN Some(Unwrap(before.list_state) + 1)
             ELSE before.list_state
    /\ (TookArm("up") /\ IsSome(before.list_state)) =>
          self.list_state =
             IF Unwrap(before.list_state) > 0
             THEN Some(Unwrap(before.list_state) - 1)
             ELSE before.list_state

\* a Down on the last entry of a list of several entries that left the
\* selection on the last entry
C4_Witness ==
    /\ TookArm("down")
    /\ before.len > 1
    /\ before.list_state = Some(before.len - 1)
    /\ self.list_state = Some(before.len - 1)

(***************************************************************************)
(* Properties of handle_page_navigation (spec section 4.1), stated on the  *)
(* finished call of PageSpec.                                              *)
(***************************************************************************)
CtrlF == key.code = Char("f") /\ CONTROL \in key.modifiers
CtrlB == key.code = Char("b") /\ CONTROL \in key.modifiers

\* the call has returned
Returned == "result" \in DOMAIN call /\ ~call.pending

\* C5: for a list of length n > 0, page size p and a selection Some(i) with
\* i < n, Ctrl-F returns Some(min(i + p, n - 1)) and Ctrl-B returns
\* Some(max(i - p, 0)), so the result is never >= n and never below 0;
\* with no selection Ctrl-F returns Some(0) on a non-empty list and Ctrl-B
\* returns None.
C5_PageClamped ==
    Returned =>
      LET n == call.total_items
          p == call.page_size
          sel == call.current_selection
      IN  /\ (n > 0 /\ IsSome(sel) /\ Unwrap(sel) < n /\ CtrlF) =>
                /\ call.result = Some(IF Unwrap(sel) + p <= n - 1
                                      THEN Unwrap(sel) + p ELSE n - 1)
                /\ Unwrap(call.result) < n
          /\ (n > 0 /\ IsSome(sel) /\ Unwrap(sel) < n /\ CtrlB) =>
                /\ call.result = Some(IF Unwrap(sel) - p >= 0
                                      THEN Unwrap(sel) - p ELSE 0)
                /\ Unwrap(call.result) >= 0
          /\ (n > 0 /\ sel = None /\ CtrlF) => call.result = Some(0)
          /\ (sel = None /\ CtrlB) => call.result = None

\* the scenario of the spec: Some(5), page size 10, 8 items, Ctrl-F: Some(7)
C5_Witness ==
    /\ Returned
    /\ CtrlF
    /\ call.current_selection = Some(5)
    /\ call.page_size = PAGE_SIZE
    /\ call.total_items = 8
    /\ call.result = Some(7)

\* C6: handle_page_navigation returns None whenever total_items is 0, for
\* every current_selection (Some(i) as well as None) and for both Ctrl-F
\* and Ctrl-B.
C6_EmptyListReturnsNone ==
    (Returned /\ call.total_items = 0 /\ (CtrlF \/ CtrlB)) => call.result = None

\* C7: handle_page_navigation returns current_selection unchanged for every
\* key that is not Ctrl-F or Ctrl-B, 'f' and 'b' without Control included,
\* for every selection, list length and page size.
C7_OtherKeysUnchanged ==
    (Returned /\ ~CtrlF /\ ~CtrlB) => call.result = call.current_selection

\* a plain 'f' on a selection that paging forward would have moved
C7_Witness ==
    /\ Returned
    /\ key = KeyEvent(Char("f"), {})
    /\ call.current_selection = Some(2)
    /\ call.total_items = 8
    /\ call.page_size = 3
    /\ call.result = Some(2)

(***************************************************************************)
(* Properties of the static filter (spec section 4.2).                     *)
(***************************************************************************)
\* the struct holds the entries the filter last ran over: load_processes
\* clears the processes before the `?` that ends the run with an Err
FilterCurrent == self.tool \in StaticTools /\ run_result # "Err"

\* the searchable fields of an entry, as text
SearchableFields(tool, e) ==
    CASE tool = "find" -> {e}
      [] tool = "kill" -> {e.name, e.command, to_string(e.pid)}
      [] tool = "env"  -> {e[1], e[2]}
      [] tool = "man"  -> {e.name, e.description}

\* text holds q at some offset, the characters compared without their case
HoldsIgnoringCase(text, q) ==
    \E off \in 0..Len(text) :
        /\ off + Len(q) <= Len(text)
        /\ \A j \in 1..Len(q) : ToLowerChar(text[off + j]) = ToLowerChar(q[j])

\* some searchable field of e holds q
EntryMatches(tool, e, q) ==
    \E text \in SearchableFields(tool, e) : HoldsIgnoringCase(text, q)

\* the elements of a sequence
Range(seq) == { seq[i] : i \in 1..Len(seq) }

\* C8: the static filter returns exactly the entries that have at least one
\* searchable field containing the query as a case-insensitive substring:
\* the filtered list is a subset of the entries without repetition, every
\* entry in it matches, every matching entry is in it, and an empty query
\* gives all the entries.
C8_FilterExact ==
    FilterCurrent =>
      /\ Range(self.filtered) =
            { e \in Range(self.entries) :
                  EntryMatches(self.tool, e, self.search_query) }
      /\ Cardinality(Range(self.filtered)) = Len(self.filtered)
      /\ self.search_query = << >> => self.filtered = self.entries

\* the query "aB" keeps the file "Bab", which holds it only when the case
\* is ignored, and drops other files
C8_Witness ==
    /\ self.tool = "find"
    /\ TookArm("char")
    /\ self.search_query = << "a", "B" >>
    /\ << "B", "a", "b" >> \in Range(self.filtered)
    /\ Len(self.filtered) < Len(self.entries)

\* the position of an entry in the entries (they are distinct)
IndexIn(seq, e) == CHOOSE i \in 1..Len(seq) : seq[i] = e

\* C9: the static filter is stable: any two entries of the filtered list
\* stand in the same relative order as in the entries, after any sequence
\* of query edits; nothing is re-ranked.
C9_FilterStable ==
    FilterCurrent =>
      \A i, j \in 1..Len(self.filtered) :
          i < j => IndexIn(self.entries, self.filtered[i])
                      < IndexIn(self.entries, self.filtered[j])

\* a query that keeps several, but not all, of the processes, the first of
\* them not the first process
C9_Witness ==
    /\ self.tool = "kill"
    /\ TookArm("char")
    /\ Len(self.filtered) >= 2
    /\ Len(self.filtered) < Len(self.entries)
    /\ self.filtered[1] # self.entries[1]

\* C10: static filtering is idempotent: running update_filter a second time
\* with the same query over the same entries gives the same filtered list
\* and the same selection as running it once.
C10_FilterIdempotent ==
    self.tool \in StaticTools =>
      LET once  == update_filter(self)
          twice == update_filter(once)
      IN  /\ twice.filtered = once.filtered
          /\ twice.list_state = once.list_state
          /\ ((key = NoKey \/ TookArm("char") \/ TookArm("backspace")) /\ FilterCurrent)
                => (once.filtered = self.filtered /\ once.list_state = self.list_state)

\* Backspace on an empty query runs update_filter again with the query and
\* the entries of the run before it
C10_Witness ==
    /\ self.tool \in StaticTools
    /\ TookArm("backspace")
    /\ before.search_query = << >>
    /\ self.search_query = << >>
    /\ self.filtered # << >>
    /\ before.len = Len(self.filtered)
    /\ before.list_state = Some(0)
    /\ self.list_state = Some(0)

(***************************************************************************)
(* Properties of live search (spec sections 4.2, 4.5, 5 and 7).            *)
(***************************************************************************)
\* the last key edited the query of live search and its handle_input has
\* returned
QueryEdited ==
    /\ self.tool = "search"
    /\ TookArm("char") \/ TookArm("backspace")
    /\ Idle

\* the rg processes among the processes of the last handle_input
RgProcs == SelectSeq(procs, LAMBDA p : p.cmd = "rg")

\* C11: in live search, whenever the query is shorter than 2 characters the
\* result set is empty and the keystroke spawned no process; every typed
\* character or backspace that leaves the query with 2 characters or more
\* spawned exactly one search process.
C11_SearchThreshold ==
    /\ (self.tool = "search" /\ Idle /\ Len(self.search_query) < 2) =>
          self.results = << >>
    /\ QueryEdited =>
          Len(RgProcs) = IF Len(self.search_query) < 2 THEN 0 ELSE 1

\* C12: when rg cannot be spawned, the search falls back to grep and still
\* produces results: the handle_input that failed to spawn rg also ran
\* grep, and the session goes on.
C12_GrepFallback ==
    (\E i \in 1..Len(procs) : procs[i].cmd = "rg" /\ procs[i].outcome = "spawn_failed")
    => /\ \E j \in 1..Len(procs) : procs[j].cmd = "grep"
       /\ run_result # "Err"

\* C13: a failure to spawn rg on a keystroke of live search, or ps on a
\* refresh of the process killer, never ends the session: should_quit
\* stays false and run_app keeps looping.
C13_SpawnFailureKeepsSession ==
    (\E i \in 1..Len(procs) :
        procs[i].cmd \in {"rg", "ps"} /\ procs[i].outcome = "spawn_failed")
    => (run_result = "loop" /\ ~self.should_quit)

\* C14: when rg exits with a failure and error text on stderr, the status
\* message shows the failure: it differs from the message of a successful
\* search for the same query that found no matches.
C14_SearchFailureSurfaced ==
    (/\ self.tool = "search"
     /\ \E i \in 1..Len(procs) :
          /\ procs[i].cmd = "rg"
          /\ procs[i].outcome = "failure"
          /\ procs[i].stderr # << >>)
    => self.status_message # Found(0, self.search_query)

\* perform_live_search, called directly, has returned after rg exited 0
SearchReturned ==
    /\ "out" \in DOMAIN call
    /\ ~call.pending
    /\ call.out.status = 0

\* the positions of the ':' characters of a line
Colons(line) == { i \in 1..Len(line) : line[i] = ":" }

\* the field between the first two ':' of a line that has two
SecondField(line) ==
    LET i == CHOOSE x \in Colons(line) : \A y \in Colons(line) : x <= y
        j == CHOOSE x \in Colons(line) \ {i} : \A y \in Colons(line) \ {i} : x <= y
    IN  [path |-> SubSeq(line, 1, i - 1), number |-> SubSeq(line, i + 1, j - 1),
         content |-> SubSeq(line, j + 1, Len(line))]

\* text that writes an unsigned 32-bit number: digits, after an optional
\* '+'; fewer digits than u32::MAX has always fit, and no line read here
\* holds more
WritesLineNumber(text) ==
    LET ds == IF text # << >> /\ text[1] = "+" THEN Tail(text) ELSE text
    IN  /\ ds # << >>
        /\ \A i \in 1..Len(ds) : ds[i] \in DigitChars
        /\ Len(ds) < Len(U32_MAX)

\* the line has the shape path:line_number:content
WellShaped(line) ==
    /\ Cardinality(Colons(line)) >= 2
    /\ WritesLineNumber(SecondField(line).number)

\* the result a well-shaped line stands for
ResultOf(line) ==
    LET f  == SecondField(line)
        ds == IF f.number[1] = "+" THEN Tail(f.number) ELSE f.number
    IN  [file_path |-> f.path, line_number |-> decimal(ds), line_content |-> f.content]

\* C15: a line of search output produces a result if and only if it splits
\* at its first two ':' into three fields whose second field parses as an
\* unsigned line number, with path = field 1 and content = the whole
\* remainder, further ':' included; every other line is dropped without an
\* error, and the reported match count is the number of lines that parsed.
C15_ParseThreeFields ==
    SearchReturned =>
      LET good == SelectSeq(call.out.stdout, WellShaped)
      IN  /\ self.results = [k \in 1..Len(good) |-> ResultOf(good[k])]
          /\ self.status_message = Found(Len(good), self.search_query)
          /\ run_result = "loop"

\* an output of five lines: the one whose content holds a ':' and the one
\* with the number +2 parse, the three of other shapes are dropped
C15_Witness ==
    /\ SearchReturned
    /\ call.out.stdout = OddLines
    /\ Len(self.results) = 2
    /\ self.results[1] = [file_path |-> << "a" >>, line_number |-> 7,
                          line_content |-> << "a", ":", "a" >>]
    /\ self.status_message = Found(2, << "a", "a" >>)

\* C16: after any live search the result list holds at most MAX_COUNT
\* (100) result lines in total, however many files and lines match.
C16_ResultCap ==
    (self.tool = "search" /\ "out" \in DOMAIN call /\ ~call.pending)
    => Len(self.results) <= MAX_COUNT

\* the rg process i of procs has exited
Exited(i) == procs[i].cmd = "rg" /\ procs[i].outcome \in {"success", "failure"}

\* C17: live search is strictly sequential: at most one search process is
\* in flight at any time; while it runs no input event is read and no other
\* handler runs, the only step is its return; and once it has returned it
\* was run for the current query, so the results shown are never those of
\* an earlier query.
C17_SearchSequential ==
    /\ [](Len(Running(procs)) <= 1)
    /\ [][Running(procs) # << >> =>
             (key' = key /\ before' = before /\ Running(procs') = << >>)]_vars
    /\ [](\A i \in 1..Len(procs) : Exited(i) => procs[i].query = self.search_query)

\* a typed character whose search has returned with results for the query
\* as it now stands
C17_Witness ==
    /\ self.tool = "search"
    /\ TookArm("char")
    /\ Len(procs) = 1
    /\ Exited(1)
    /\ procs[1].query = self.search_query
    /\ self.search_query = before.search_query \o << key.code.c >>
    /\ self.results # << >>
    /\ ~self.is_searching

(***************************************************************************)
(* Properties of the preview loaders (spec section 4.3), stated on the     *)
(* finished call of PreviewSpec.                                           *)
(***************************************************************************)
PreviewReturned == "file" \in DOMAIN call /\ ~call.pending

\* the extension is one of the image set, whatever its case
HasImageExtension(file) ==
    /\ file.extension # None
    /\ \E ext \in { << "j", "p", "g" >>, << "j", "p", "e", "g" >>, << "p", "n", "g" >>,
                    << "g", "i", "f" >>, << "b", "m", "p" >> } :
         /\ Len(ext) = Len(file.extension[1])
         /\ \A i \in 1..Len(ext) : ToLowerChar(file.extension[1][i]) = ext[i]

\* C18: the preview of every entry follows one precedence: a directory gets
\* a directory listing; otherwise a file with an image extension goes to
\* the image renderer, readable as text or not; otherwise a file readable
\* as text gets a text preview; otherwise the preview is the binary-info
\* summary with size and modification time (the Error preview of the data
\* model when not even the metadata of the entry can be read). Exactly one
\* branch is taken, the first that applies, in every tool with a preview.
C18_PreviewPrecedence ==
    PreviewReturned =>
      call.result.branch =
         IF call.file.is_directory THEN "directory"
         ELSE IF HasImageExtension(call.file) THEN "image"
         ELSE IF call.file.content # None THEN "text"
         ELSE IF call.file.metadata # None THEN "binary_info"
         ELSE "unreadable"

\* C19: for every text file of n lines the text preview is exactly the
\* first min(n, 50) lines of the file, in order, and never more than 50
\* lines; a readable file that is neither a directory nor sent to the image
\* renderer gets this preview.
C19_TextPreviewFirstLines ==
    PreviewReturned =>
      LET file == call.file
          n == Len(file.content[1])
      IN  /\ call.result.branch = "text" =>
                /\ file.content # None
                /\ Len(call.result.text) = (IF n <= 50 THEN n ELSE 50)
                /\ Len(call.result.text) <= 50
                /\ \A i \in 1..Len(call.result.text) :
                      call.result.text[i] = file.content[1][i]
          /\ (/\ file.content # None
              /\ ~(call.tool \in {"explore", "find"} /\ HasImageExtension(file)))
             => call.result.branch = "text"

\* a file of more than 50 lines whose preview ends with its line 50
C19_Witness ==
    /\ PreviewReturned
    /\ call.file.content = Some(FileLines(MaxFileLines))
    /\ call.result.branch = "text"
    /\ Len(call.result.text) = 50
    /\ call.result.text[50] = << "5", "0" >>

\* C20: a text preview records whether it was truncated: the preview of a
\* file of more than 50 lines differs from the preview of the file made of
\* its first 50 lines, which is not truncated.
C20_TruncationRecorded ==
    (/\ PreviewReturned
     /\ call.result.branch = "text"
     /\ Len(call.file.content[1]) > 50)
    => call.result #
          load_file_preview(call.tool,
              [call.file EXCEPT !.content = Some(SubSeq(@[1], 1, 50))])

\* the preview of a directory of explore has been built
DirectoryPreviewed ==
    /\ PreviewReturned
    /\ call.tool = "explore"
    /\ call.file.is_directory

\* the positions of the children read_dir could read
Readable(dir_entries) == { i \in 1..Len(dir_entries) : dir_entries[i] # None }

\* the k-th readable position
NthReadable(dir_entries, k) ==
    CHOOSE i \in Readable(dir_entries) :
        Cardinality({ j \in Readable(dir_entries) : j <= i }) = k

\* C21: the preview of a directory lists at most 20 immediate children, in
\* the order read, each line being the name after a tag that tells a file
\* from a directory, and nothing of what the children contain; a readable
\* directory without children gives the empty-directory message, a
\* directory that cannot be read the permission-denied message, and the two
\* messages differ from each other and from every listing.
C21_DirectoryListing ==
    DirectoryPreviewed =>
      LET text == call.result.text
          rd   == call.file.read_dir
      IN  /\ call.result.branch = "directory"
          /\ rd = None => text = << << "[Permission denied]" >> >>
          /\ (rd # None /\ rd[1] = << >>) => text = << << "[Empty directory]" >> >>
          /\ (rd # None /\ Readable(rd[1]) # {}) =>
               /\ Len(text) = min(Cardinality(Readable(rd[1])), 20)
               /\ \A k \in 1..Len(text) :
                    LET child == rd[1][NthReadable(rd[1], k)][1]
                    IN  /\ Len(text[k]) = Len(child.name) + (IF child.is_dir THEN 4 ELSE 5)
                        /\ SubSeq(text[k], 1, 3) = DIR_ICON
                        /\ child.is_dir <=> text[k][4] = " "
                        /\ ~child.is_dir <=> SubSeq(text[k], 4, 5) = << "U+201E", " " >>
                        /\ SubSeq(text[k], Len(text[k]) - Len(child.name) + 1, Len(text[k]))
                              = child.name
                        /\ ~contains(text[k], << "grandchild" >>)
               /\ text # << << "[Permission denied]" >> >>
               /\ text # << << "[Empty directory]" >> >>
          /\ << << "[Permission denied]" >> >> # << << "[Empty directory]" >> >>

\* a directory of more than 20 children, the second of them a directory
C21_Witness ==
    /\ DirectoryPreviewed
    /\ call.file.read_dir = Some(Children(MaxChildren))
    /\ Len(call.result.text) = 20
    /\ call.result.text[1] = FILE_ICON \o << " ", "[Empty directory]" >>
    /\ call.result.text[2] = DIR_ICON \o << " ", "child", "2" >>
    /\ call.result.text[20] = FILE_ICON \o << " ", "child", "2", "1" >>

\* the pixel step, called directly, has returned
RampReturned == "gray" \in DOMAIN call /\ ~call.pending

\* C25: for every gray in 0..255 the index into the ramp of 10 characters
\* is within 0..9, equals gray * 9 / 255 in integer division, is 9 exactly
\* when gray is 255, and never decreases when gray grows.
C25_RampIndex ==
    RampReturned =>
      /\ call.char_index \in 0..9
      /\ \E q \in 0..9 :
           /\ q = call.char_index
           /\ GRAY_MAX * q <= call.gray * 9
           /\ call.gray * 9 < GRAY_MAX * (q + 1)
      /\ call.char_index = 9 <=> call.gray = 255
      /\ \A gray2 \in 0..255 :
           call.gray < gray2 => call.char_index <= ramp_index(gray2)
      /\ \A gray1 \in 0..255 :
           gray1 < call.gray => ramp_index(gray1) <= call.char_index
      /\ call.char = RAMP[call.char_index + 1]

\* the last gray value below white, still on the character before the last
C25_Witness ==
    /\ RampReturned
    /\ call.gray = 254
    /\ call.char_index = 8
    /\ call.char = "%"

\* generate_ascii_preview, called directly, has returned
AsciiReturned == "img" \in DOMAIN call /\ ~call.pending

\* the value clamped to lo..hi
Clamped(v, lo, hi) == IF v < lo THEN lo ELSE IF v > hi THEN hi ELSE v

\* C26: generate_ascii_preview returns Ok for every target size; the size
\* it draws fits the target clamped to 1..200 by 1..100; the output is one
\* line per row, each ended by a newline; and an image of 1 x 1 gives
\* exactly one character and a newline.
C26_AsciiPreviewClamped ==
    AsciiReturned =>
      LET res == call.result
          art == res.ascii_art
      IN  /\ res.ok
          /\ res.width  \in 1..Clamped(call.target_width, 1, 200)
          /\ res.height \in 1..Clamped(call.target_height, 1, 100)
          /\ Len(art) = res.height * (res.width + 1)
          /\ \A k \in 1..Len(art) : art[k] = "\n" <=> k % (res.width + 1) = 0
          /\ (call.img.width = 1 /\ call.img.height = 1) =>
                Len(art) = 2 /\ art[2] = "\n"

\* some line of the preview holds the file name of the path
MentionsPath(text, file) ==
    \E k \in 1..Len(text) : contains(text[k], file_name(file))

\* C22: for every path that does not exist, with an image extension or
\* without, the preview is an error message that references the path, and
\* the session goes on.
C22_MissingPathError ==
    (PreviewReturned /\ ~call.file.exists) =>
       /\ MentionsPath(call.result.text, call.file)
       /\ run_result = "loop"

\* load_file_preview has handed the file to generate_image_preview
ImagePreviewed ==
    /\ PreviewReturned
    /\ call.tool \in {"explore", "find"}
    /\ ~call.file.is_directory
    /\ HasImageExtension(call.file)

\* the three lines shown for an image that was opened
BasicInfo(file) ==
    << ImageHeader(file),
       << "U+1F4D0", " Dimensions: " >> \o to_string(file.image.width)
           \o << "x" >> \o to_string(file.image.height),
       << "U+1F3A8", " Channels: ", "3" >> >>

\* the image was opened and is not refused for its size by the first test
Opened(file) ==
    /\ file.image.open = "ok"
    /\ file.image.width <= 50000
    /\ file.image.height <= 50000

\* only the ASCII rendering step fails: the second open, or its size tests
RenderFails(file) ==
    \/ file.image.reopen = "error"
    \/ /\ file.image.reopen = "ok"
       /\ \/ file.image.width = 0
          \/ file.image.height = 0
          \/ file.image.width > 10000
          \/ file.image.height > 10000

\* C23: generate_image_preview always returns a preview string: a decode
\* error gives an error message that names the file; a panic anywhere in
\* decoding or rendering gives the fixed panic diagnostic; a failure of the
\* ASCII rendering step alone gives the basic image info with the
\* 'unavailable' note; in every case the session goes on.
C23_ImagePreviewNeverFails ==
    ImagePreviewed =>
      LET file == call.file
          text == call.result.text
      IN  /\ call.result.branch = "image"
          /\ text # << >>
          /\ run_result = "loop"
          /\ file.image.open = "error" =>
                /\ Len(text) = 2
                /\ contains(text[1], file_name(file))
                /\ SubSeq(text[2], 1, 2) = << "U+274C", " Error loading image: " >>
          /\ (\/ file.image.open = "panic"
              \/ Opened(file) /\ file.image.reopen = "panic") =>
                text = << << "U+1F5BC", " Image file: " >> \o file_name(file),
                          << "U+274C", " Panic occurred during image processing" >> >>
          /\ (Opened(file) /\ RenderFails(file)) =>
                text = BasicInfo(file) \o
                       << << >>, << "U+1F4FA", " ASCII preview unavailable for this image" >> >>

\* an image that opens and then makes the rendering step panic
C23_Witness ==
    /\ ImagePreviewed
    /\ call.file.image.open = "ok"
    /\ call.file.image.width = 3
    /\ call.file.image.reopen = "panic"
    /\ call.result.branch = "image"
    /\ call.result.text[2] = << "U+274C", " Panic occurred during image processing" >>

\* the preview is an error: one of its lines starts with the cross mark
ErrorPreview(text) ==
    \E k \in 1..Len(text) : text[k] # << >> /\ text[k][1] = "U+274C"

\* C24: an image whose width or height is zero, or beyond the size up to
\* which ASCII art is drawn, is rejected with an Error preview: the preview
\* is the error, the same for every oversized image, and holds no art.
C24_BadDimensionsRejected ==
    (/\ ImagePreviewed
     /\ call.file.image.open = "ok"
     /\ call.file.image.reopen = "ok"
     /\ \/ call.file.image.width = 0
        \/ call.file.image.height = 0
        \/ call.file.image.width > RENDER_MAX
        \/ call.file.image.height > RENDER_MAX)
    => /\ ErrorPreview(call.result.text)
       /\ ~\E k \in 1..Len(call.result.text) :
              call.result.text[k] = << "U+1F4FA", " Terminal Preview:" >>

\* the bridge, called directly, has returned
BridgeReturned ==
    /\ "fn" \in DOMAIN call
    /\ call.fn = "run_git_command_with_timeout"
    /\ ~call.pending

\* GitLogBrowser::new, called directly, has returned
LogLoaded ==
    /\ "fn" \in DOMAIN call
    /\ call.fn = "load_commits"
    /\ ~call.pending

\* the run ended within the timeout, in milliseconds
WithinTimeout(out, timeout_secs) == out.elapsed <= 1000 * timeout_secs

\* the run gives the bridge a failure although it ended in time
FailedInTime(out, timeout_secs) ==
    \/ ~out.spawned
    \/ WithinTimeout(out, timeout_secs) /\ out.status # 0

\* the bytes with every byte that is not UTF-8 replaced
Replaced(bytes) ==
    [k \in 1..Len(bytes) |->
        [c \in 1..Len(bytes[k]) |->
            IF bytes[k][c] \in {"0xFF"} THEN "U+FFFD" ELSE bytes[k][c]]]

\* C27: for a command that ends within its timeout the bridge returns the
\* captured stdout as success exactly when the exit code is 0, and else a
\* failure that carries the captured stderr; a command that cannot be
\* spawned gives a failure value; and in the log browser every such failure
\* ends as the status message or as preview text, the browser constructed
\* and not quitting.
C27_BridgeResult ==
    /\ BridgeReturned =>
         LET out == call.log
             res == call.result
         IN  /\ (out.spawned /\ WithinTimeout(out, call.timeout_secs)) =>
                  /\ res.ok <=> out.status = 0
                  /\ res.ok => res.value = Replaced(out.stdout)
                  /\ ~res.ok =>
                       /\ res.kind = "Other"
                       /\ Tail(res.value) = Replaced(out.stderr)
                       /\ Head(res.value) = << "Git command failed: " >>
             /\ ~out.spawned => ~res.ok /\ res.kind # "TimedOut"
             /\ run_result = "loop"
    /\ LogLoaded =>
         LET browser == call.result
         IN  /\ ~browser.should_quit
             /\ run_result = "loop"
             /\ FailedInTime(call.log, 5) =>
                  /\ browser.commits = << >>
                  /\ browser.status_message =
                       << "Error: Not a git repository, git not found, or command timed out" >>
             /\ (~FailedInTime(call.log, 5) /\ WithinTimeout(call.log, 5)
                   /\ browser.commits # << >>) =>
                  /\ FailedInTime(call.stat, 3) =>
                       browser.preview_content[1] = << "Commit: " >> \o browser.commits[1].hash
                  /\ FailedInTime(call.diff, 5) =>
                       browser.preview_content[Len(browser.preview_content)]
                          = << "Failed to load commit diff (timeout or error)" >>

\* git ends exactly at the timeout with status 128 and text on stderr
C27_Witness ==
    /\ BridgeReturned
    /\ call.log.spawned
    /\ call.log.elapsed = 1000 * call.timeout_secs
    /\ call.log.status = 128
    /\ call.log.stderr # << >>
    /\ ~call.result.ok
    /\ call.result.kind = "Other"
    /\ Len(call.result.value) = 2

\* C28: whenever the run of the command took longer than timeout_secs
\* seconds, by a fraction of a second or more, the bridge returns the
\* timeout failure, whatever the exit status, and the output is dropped.
C28_TimeoutDetected ==
    (BridgeReturned /\ call.log.spawned /\ call.log.elapsed > 1000 * call.timeout_secs)
    => /\ ~call.result.ok
       /\ call.result.kind = "TimedOut"

\* the last handle_input read the character c, typed without a modifier,
\* outside the confirmation dialog of kill
Typed(c) ==
    /\ key = KeyEvent(Char(c), {})
    /\ ~before.confirmation_mode

\* where the Down arm takes the selection found on entry
DownFrom(snapshot) ==
    IF snapshot.list_state # None
    THEN IF snapshot.list_state[1] + 1 < snapshot.len
         THEN Some(snapshot.list_state[1] + 1)
         ELSE snapshot.list_state
    ELSE IF snapshot.len > 0 THEN Some(0) ELSE None

\* where the Up arm takes the selection found on entry
UpFrom(snapshot) ==
    IF snapshot.list_state # None /\ snapshot.list_state[1] > 0
    THEN Some(snapshot.list_state[1] - 1)
    ELSE snapshot.list_state

\* C29: in every tool 'j' and 'k' move the selection down and up by one
\* entry as the Down and Up arrows do: the same resulting selection, the
\* same no-op at the ends of the list, the query unchanged.
C29_ViKeysNavigate ==
    /\ Typed("j") =>
         /\ self.list_state = DownFrom(before)
         /\ self.search_query = before.search_query
    /\ Typed("k") =>
         /\ self.list_state = UpFrom(before)
         /\ self.search_query = before.search_query

\* the last handle_input read one of the quit keys
QuitKeyRead ==
    \/ key.code = Code("Esc")
    \/ key = KeyEvent(Char("q"), {})
    \/ key.code = Char("c") /\ CONTROL \in key.modifiers

\* C30: in every tool and every mode Esc, 'q' and Ctrl-C set the quit flag,
\* and once the flag is set run_app has returned: no later input event is
\* handled.
C30_QuitKeysQuit ==
    /\ QuitKeyRead => self.should_quit
    /\ self.should_quit => run_result # "loop"


(***************************************************************************)
(* C31                                                                     *)
(***************************************************************************)
\* is_image_file has returned
ImageNameReturned == "path" \in DOMAIN call /\ ~call.pending

\* the name ends in a non-empty stem, a '.' and ext
EndsWithExtension(name, ext) ==
    /\ Len(name) >= Len(ext) + 2
    /\ name[Len(name) - Len(ext)] = "."
    /\ SubSeq(name, Len(name) - Len(ext) + 1, Len(name)) = ext

\* C31: is_image_file returns true exactly for the paths whose last
\* component is a name that ends, after a non-empty stem, in '.' and one of
\* jpg, jpeg, png, gif, bmp written in any mix of upper and lower case; it
\* returns false for every other extension, for a name that ends in '.',
\* and for a path without an extension.
C31_ImageExtensions ==
    ImageNameReturned =>
      LET path == call.path
          name == IF path = << >> THEN << >> ELSE path[Len(path)]
      IN  /\ call.result <=>
                \E w \in IMAGE_EXTENSIONS : \E e \in CaseVariants(w) :
                    EndsWithExtension(name, e)
          /\ (name = << >> \/ name[Len(name)] = ".") => ~call.result
          /\ (\A i \in 1..Len(name) : name[i] # ".") => ~call.result

\* TEST.JPG-like: an upper-case extension accepted
C31_Witness ==
    /\ ImageNameReturned
    /\ call.path = << << "t", "e", "s", "t", ".", "J", "P", "G" >> >>
    /\ call.result


(***************************************************************************)
(* C32                                                                     *)
(***************************************************************************)
\* run_app is about to draw: it loops and no child is being waited for
Rendering == run_result = "loop" /\ Idle

\* C32: in find, man and live search, at every render the preview content
\* is the preview of the selected entry, and it is empty whenever the
\* displayed list is empty, so that no preview of an entry that is no
\* longer listed stays on screen.
C32_PreviewFollowsSelection ==
    (Rendering /\ self.tool \in {"find", "man", "search"}) =>
      /\ displayed(self) = << >> => self.preview_content = << >>
      /\ IsSome(selected_entry(self)) =>
            self.preview_content = Preview(Unwrap(selected_entry(self)))


(***************************************************************************)
(* C33                                                                     *)
(***************************************************************************)
\* the navigation and paging keys
NavigationKeys ==
    { KeyEvent(Code("Up"), {}), KeyEvent(Code("Down"), {}),
      KeyEvent(Char("f"), {CONTROL}), KeyEvent(Char("b"), {CONTROL}) }

\* C33: a navigation or paging key (Up, Down, Ctrl-F, Ctrl-B) leaves the
\* query, the loaded entries and the displayed list as they were and spawns
\* no process; a key changes the query only by appending its character at
\* the end or, for Backspace, by removing the last character, and Backspace
\* on an empty query leaves it empty.
C33_NavigationKeepsQuery ==
    [][(run_result = "loop" /\ Idle) =>
         /\ key' \in NavigationKeys =>
               /\ self'.search_query = self.search_query
               /\ self'.entries = self.entries
               /\ displayed(self') = displayed(self)
               /\ procs' = << >>
         /\ self'.search_query # self.search_query =>
               \/ /\ key'.code \in { Char(c) : c \in PlainChars(self.tool) }
                  /\ key'.modifiers = {}
                  /\ self'.search_query = self.search_query \o << key'.code.c >>
               \/ /\ key'.code = Code("Backspace")
                  /\ self.search_query # << >>
                  /\ self'.search_query =
                        SubSeq(self.search_query, 1, Len(self.search_query) - 1)
         /\ (key'.code = Code("Backspace") /\ self.search_query = << >>) =>
               self'.search_query = << >>]_vars

\* Down moved the selection of a filtered list, and Backspace took the last
\* of two characters
C33_Witness ==
    \/ /\ self.tool = "find"
       /\ key = KeyEvent(Code("Down"), {})
       /\ self.search_query # << >>
       /\ before.search_query = self.search_query
       /\ before.list_state = Some(0)
       /\ self.list_state = Some(1)
    \/ /\ self.tool = "find"
       /\ key = KeyEvent(Code("Backspace"), {})
       /\ before.search_query = << "a", "B" >>
       /\ self.search_query = << "a" >>


(***************************************************************************)
(* C34                                                                     *)
(***************************************************************************)
\* C34: the threshold of live search counts characters: no search process
\* is ever spawned for a query of fewer than 2 characters, whatever the
\* number of bytes that encode them.
C34_ThresholdCountsCharacters ==
    self.tool = "search" =>
      \A i \in 1..Len(procs) :
         procs[i].cmd \in {"rg", "grep"} => Len(procs[i].query) >= 2


(***************************************************************************)
(* Properties of the process killer.                                       *)
(***************************************************************************)
\* the kill commands among the given processes
KillProcs(ps) == SelectSeq(ps, LAMBDA p : p.cmd = "kill")

YesKeys == { Char("y"), Char("Y"), Code("Enter") }

NoKeys == { Char("n"), Char("N"), Code("Esc") }

\* the last handle_input was a confirmation that issued a kill
KillIssued ==
    /\ self.tool = "kill"
    /\ before.confirmation_mode
    /\ KillProcs(procs) # << >>

\* C35: in the process killer a kill command is issued only in answer to
\* y, Y or Enter read in confirmation mode; confirmation mode is entered
\* only by Enter on a selected entry in normal mode, which becomes the
\* pending process and stays it until the mode is left; the pid given to
\* kill is the pid of that process; n, N or Esc leaves confirmation mode
\* and issues no kill.
C35_KillOnlyOnConfirm ==
    [][self.tool = "kill" =>
         /\ KillProcs(procs') # << >> =>
               /\ self.confirmation_mode
               /\ key'.code \in YesKeys
               /\ IsSome(self.selected_process)
               /\ KillProcs(procs') =
                     << [cmd |-> "kill",
                         query |-> to_string(Unwrap(self.selected_process).pid),
                         outcome |-> procs'[1].outcome, stderr |-> << >>] >>
         /\ (~self.confirmation_mode /\ self'.confirmation_mode) =>
               /\ key' = KeyEvent(Code("Enter"), {})
               /\ IsSome(self.list_state)
               /\ Unwrap(self.list_state) < Len(self.filtered)
               /\ self'.selected_process =
                     Some(self.filtered[Unwrap(self.list_state) + 1])
         /\ (self.confirmation_mode /\ self'.confirmation_mode) =>
               self'.selected_process = self.selected_process
         /\ (self.confirmation_mode /\ key'.code \in NoKeys) =>
               /\ ~self'.confirmation_mode
               /\ KillProcs(procs') = << >>]_vars

\* Y confirmed the kill of the second process of the list
C35_Witness ==
    /\ KillIssued
    /\ key = KeyEvent(Char("Y"), {})
    /\ procs[1].query \notin { to_string(0), to_string(1), to_string(2) }
    /\ before.list_state = Some(1)


(***************************************************************************)
(* C36                                                                     *)
(***************************************************************************)
\* C36: in the process killer confirmation_mode is true exactly when
\* selected_process is Some, in every state the loop observes; and in
\* confirmation mode a key other than y, Y, Enter, n, N, Esc leaves the
\* mode, the query, the process list, the filtered list, the selection and
\* the pending process as they were.
C36_ConfirmationFrame ==
    /\ [](self.tool = "kill" =>
            (self.confirmation_mode <=> IsSome(self.selected_process)))
    /\ [][(self.tool = "kill" /\ self.confirmation_mode
              /\ key'.code \notin YesKeys \cup NoKeys) =>
             /\ self'.confirmation_mode
             /\ self'.search_query = self.search_query
             /\ self'.entries = self.entries
             /\ self'.filtered = self.filtered
             /\ self'.list_state = self.list_state
             /\ self'.selected_process = self.selected_process
             /\ procs' = << >>]_vars

\* 'q', which quits in normal mode, was read in confirmation mode over a
\* filtered list and the confirmation is still pending
C36_Witness ==
    /\ self.tool = "kill"
    /\ before.confirmation_mode
    /\ self.confirmation_mode
    /\ key = KeyEvent(Char("q"), {})
    /\ self.search_query # << >>
    /\ IsSome(self.selected_process)
    /\ ~self.should_quit


(***************************************************************************)
(* C37                                                                     *)
(***************************************************************************)
\* ps shows the command of a kernel thread in square brackets
KernelThread(p) == p.command # << >> /\ p.command[1] = "["

\* a process the killer may list and kill
Killable(p) == p.pid > 1 /\ ~KernelThread(p)

\* C37: the process killer never lists pid 0, pid 1 or a kernel thread,
\* and every kill it issues is for the pid of a process it may list, after
\* any sequence of filters, refreshes and kills.
C37_NoKillOfProtected ==
    self.tool = "kill" =>
      /\ \A i \in 1..Len(self.entries) : Killable(self.entries[i])
      /\ \A i \in 1..Len(self.filtered) : Killable(self.filtered[i])
      /\ \A i \in 1..Len(procs) :
            procs[i].cmd = "kill" =>
              \E j \in 1..Len(PsOutput(MaxEntries)) :
                 /\ to_string(PsOutput(MaxEntries)[j].pid) = procs[i].query
                 /\ Killable(PsOutput(MaxEntries)[j])


(***************************************************************************)
(* C38                                                                     *)
(***************************************************************************)
\* the process list is what load_processes keeps of the rows ps printed:
\* the rows without pid 1 and the names in brackets, by falling CPU figure
Reloaded(entries, rows) ==
    /\ Range(entries) = { p \in Range(rows) : p.pid > 1 /\ p.name[1] # "[" }
    /\ \A i \in 1..Len(entries), j \in 1..Len(entries) :
          i < j => /\ entries[i].cpu >= entries[j].cpu
                   /\ entries[i] # entries[j]

Occurrences(q, c) == Cardinality({ i \in 1..Len(q) : q[i] = c })

\* the static filter has been applied with the query as it now stands
Refiltered(s) ==
    /\ \A i \in 1..Len(s.entries) :
          EntryMatches(s.tool, s.entries[i], s.search_query)
             <=> s.entries[i] \in Range(s.filtered)
    /\ Len(s.filtered) <= Len(s.entries)
    /\ s.list_state = IF s.filtered = << >> THEN None ELSE Some(0)

LastLine == max(0, Len(self.diff_content) - 1)

\* C40: in the git diff browser the scroll offset stays within
\* 0..max(0, line_count - 1) after any sequence of keys: Ctrl-F and Ctrl-B
\* move it by 20 lines clamped to that range, Up/k and Down/j move it by
\* one line and do nothing at the ends, Home/g sets it to 0 and End/G to
\* max(0, line_count - 20); no key changes the diff.
C40_ScrollInRange ==
    /\ [](self.scroll_offset \in 0..LastLine)
    /\ [][LET offset == self.scroll_offset
               code   == key'.code
               ctrl   == CONTROL \in key'.modifiers
           IN  /\ self'.diff_content = self.diff_content
               /\ (code = Char("f") /\ ctrl) =>
                     self'.scroll_offset =
                        IF offset + 20 > LastLine THEN LastLine ELSE offset + 20
               /\ (code = Char("b") /\ ctrl) =>
                     self'.scroll_offset = IF offset < 20 THEN 0 ELSE offset - 20
               /\ code \in {Code("Up"), Char("k")} =>
                     self'.scroll_offset = IF offset = 0 THEN 0 ELSE offset - 1
               /\ code \in {Code("Down"), Char("j")} =>
                     self'.scroll_offset =
                        IF offset = LastLine THEN offset ELSE offset + 1
               /\ code \in {Code("Home"), Char("g")} => self'.scroll_offset = 0
               /\ code \in {Code("End"), Char("G")} =>
                     self'.scroll_offset = max(0, Len(self.diff_content) - 20)]_vars

\* Ctrl-F from within the last page stopped on the last line
C40_Witness ==
    /\ self.tool = "git_diff"
    /\ key = KeyEvent(Char("f"), {CONTROL})
    /\ Len(self.diff_content) = MaxDiffLines
    /\ self.scroll_offset = MaxDiffLines - 1
    /\ run_result = "loop"

=============================================================================
